---- MODULE Spec2Model ----
(***************************************************************************)
(* The adaptive progress and roadmap engine of the AI coach:               *)
(* DatabaseManager (src/database_manager.py), RoadmapGenerator             *)
(* (src/roadmap_generator.py) and the HTTP handlers that call them         *)
(* (src/backend/server.py).                                                *)
(*                                                                         *)
(* Numbers.  mastery_level is a Python float; the model keeps it in        *)
(* hundredths (0.35 is 35), and a mean of mastery levels as the exact      *)
(* fraction [num, den], compared by cross-multiplication.  Ids are the     *)
(* program's strings, so that the progress row id f"{user_id}_{topic_id}"  *)
(* is the concatenation the code builds.                                   *)
(***************************************************************************)
EXTENDS Integers, Sequences, FiniteSets, TLC

(***************************************************************************)
(* Bounds of the model.                                                    *)
(***************************************************************************)
\* update_progress calls in one behaviour (each takes a fresh datetime.now())
MaxClock == 2
\* roadmaps created in one behaviour (each takes a fresh uuid4)
MaxRoadmaps == 2
\* largest study_hours_per_day a profile is given
MaxHours == 6
\* progress rows of the user a strategy is computed for; up to three rows the
\* double-precision means of the code compare with 0.3, 0.6 and 0.7 as the exact
\* fractions of the model do
MaxRows == 3
\* mock tests scheduled in one behaviour
MaxTests == 2
\* start_mock_test calls that find their test, in one behaviour
MaxStarts == 3

(***************************************************************************)
(* Reference data: populate_initial_data seeds four subjects and sixty     *)
(* topics.  A topic row keeps the columns the engine reads; its id is      *)
(* f"{prefix}_{name.lower().replace(' ', '_')}".                           *)
(***************************************************************************)
SubjectsTable ==
  << [id |-> "physics_jee_neet",   name |-> "Physics",     exam_type |-> "BOTH"],
     [id |-> "chemistry_jee_neet", name |-> "Chemistry",   exam_type |-> "BOTH"],
     [id |-> "mathematics_jee",    name |-> "Mathematics", exam_type |-> "JEE"],
     [id |-> "biology_neet",       name |-> "Biology",     exam_type |-> "NEET"] >>

SeededTopics ==
  {
    [id |-> "physics_mechanics", subject_id |-> "physics_jee_neet", chapter_number |-> 1, difficulty_level |-> 4, importance |-> 5],
    [id |-> "physics_heat_and_thermodynamics", subject_id |-> "physics_jee_neet", chapter_number |-> 2, difficulty_level |-> 3, importance |-> 4],
    [id |-> "physics_waves_and_oscillations", subject_id |-> "physics_jee_neet", chapter_number |-> 3, difficulty_level |-> 4, importance |-> 4],
    [id |-> "physics_electricity_and_magnetism", subject_id |-> "physics_jee_neet", chapter_number |-> 4, difficulty_level |-> 5, importance |-> 5],
    [id |-> "physics_optics", subject_id |-> "physics_jee_neet", chapter_number |-> 5, difficulty_level |-> 3, importance |-> 4],
    [id |-> "physics_modern_physics", subject_id |-> "physics_jee_neet", chapter_number |-> 6, difficulty_level |-> 4, importance |-> 4],
    [id |-> "physics_semiconductors", subject_id |-> "physics_jee_neet", chapter_number |-> 7, difficulty_level |-> 3, importance |-> 3],
    [id |-> "physics_communication_systems", subject_id |-> "physics_jee_neet", chapter_number |-> 8, difficulty_level |-> 2, importance |-> 3],
    [id |-> "physics_gravitation", subject_id |-> "physics_jee_neet", chapter_number |-> 9, difficulty_level |-> 3, importance |-> 4],
    [id |-> "physics_rotational_motion", subject_id |-> "physics_jee_neet", chapter_number |-> 10, difficulty_level |-> 4, importance |-> 4],
    [id |-> "physics_simple_harmonic_motion", subject_id |-> "physics_jee_neet", chapter_number |-> 11, difficulty_level |-> 3, importance |-> 4],
    [id |-> "physics_fluid_mechanics", subject_id |-> "physics_jee_neet", chapter_number |-> 12, difficulty_level |-> 3, importance |-> 3],
    [id |-> "physics_kinetic_theory_of_gases", subject_id |-> "physics_jee_neet", chapter_number |-> 13, difficulty_level |-> 3, importance |-> 3],
    [id |-> "physics_electromagnetic_waves", subject_id |-> "physics_jee_neet", chapter_number |-> 14, difficulty_level |-> 4, importance |-> 4],
    [id |-> "physics_alternating_current", subject_id |-> "physics_jee_neet", chapter_number |-> 15, difficulty_level |-> 4, importance |-> 4],
    [id |-> "chemistry_atomic_structure", subject_id |-> "chemistry_jee_neet", chapter_number |-> 1, difficulty_level |-> 3, importance |-> 5],
    [id |-> "chemistry_chemical_bonding", subject_id |-> "chemistry_jee_neet", chapter_number |-> 2, difficulty_level |-> 4, importance |-> 5],
    [id |-> "chemistry_thermodynamics", subject_id |-> "chemistry_jee_neet", chapter_number |-> 3, difficulty_level |-> 4, importance |-> 4],
    [id |-> "chemistry_chemical_equilibrium", subject_id |-> "chemistry_jee_neet", chapter_number |-> 4, difficulty_level |-> 4, importance |-> 4],
    [id |-> "chemistry_ionic_equilibrium", subject_id |-> "chemistry_jee_neet", chapter_number |-> 5, difficulty_level |-> 4, importance |-> 4],
    [id |-> "chemistry_electrochemistry", subject_id |-> "chemistry_jee_neet", chapter_number |-> 6, difficulty_level |-> 4, importance |-> 4],
    [id |-> "chemistry_chemical_kinetics", subject_id |-> "chemistry_jee_neet", chapter_number |-> 7, difficulty_level |-> 4, importance |-> 4],
    [id |-> "chemistry_organic_chemistry_basics", subject_id |-> "chemistry_jee_neet", chapter_number |-> 8, difficulty_level |-> 3, importance |-> 5],
    [id |-> "chemistry_hydrocarbons", subject_id |-> "chemistry_jee_neet", chapter_number |-> 9, difficulty_level |-> 3, importance |-> 4],
    [id |-> "chemistry_organic_reactions", subject_id |-> "chemistry_jee_neet", chapter_number |-> 10, difficulty_level |-> 5, importance |-> 5],
    [id |-> "chemistry_biomolecules", subject_id |-> "chemistry_jee_neet", chapter_number |-> 11, difficulty_level |-> 3, importance |-> 3],
    [id |-> "chemistry_polymers", subject_id |-> "chemistry_jee_neet", chapter_number |-> 12, difficulty_level |-> 2, importance |-> 3],
    [id |-> "chemistry_coordination_compounds", subject_id |-> "chemistry_jee_neet", chapter_number |-> 13, difficulty_level |-> 4, importance |-> 4],
    [id |-> "chemistry_metallurgy", subject_id |-> "chemistry_jee_neet", chapter_number |-> 14, difficulty_level |-> 3, importance |-> 3],
    [id |-> "chemistry_p-block_elements", subject_id |-> "chemistry_jee_neet", chapter_number |-> 15, difficulty_level |-> 3, importance |-> 4],
    [id |-> "mathematics_algebra", subject_id |-> "mathematics_jee", chapter_number |-> 1, difficulty_level |-> 4, importance |-> 5],
    [id |-> "mathematics_trigonometry", subject_id |-> "mathematics_jee", chapter_number |-> 2, difficulty_level |-> 4, importance |-> 5],
    [id |-> "mathematics_coordinate_geometry", subject_id |-> "mathematics_jee", chapter_number |-> 3, difficulty_level |-> 5, importance |-> 5],
    [id |-> "mathematics_calculus", subject_id |-> "mathematics_jee", chapter_number |-> 4, difficulty_level |-> 5, importance |-> 5],
    [id |-> "mathematics_vectors", subject_id |-> "mathematics_jee", chapter_number |-> 5, difficulty_level |-> 4, importance |-> 4],
    [id |-> "mathematics_3d_geometry", subject_id |-> "mathematics_jee", chapter_number |-> 6, difficulty_level |-> 4, importance |-> 4],
    [id |-> "mathematics_probability", subject_id |-> "mathematics_jee", chapter_number |-> 7, difficulty_level |-> 4, importance |-> 4],
    [id |-> "mathematics_statistics", subject_id |-> "mathematics_jee", chapter_number |-> 8, difficulty_level |-> 3, importance |-> 3],
    [id |-> "mathematics_complex_numbers", subject_id |-> "mathematics_jee", chapter_number |-> 9, difficulty_level |-> 4, importance |-> 4],
    [id |-> "mathematics_matrices_and_determinants", subject_id |-> "mathematics_jee", chapter_number |-> 10, difficulty_level |-> 4, importance |-> 4],
    [id |-> "mathematics_sequences_and_series", subject_id |-> "mathematics_jee", chapter_number |-> 11, difficulty_level |-> 3, importance |-> 4],
    [id |-> "mathematics_binomial_theorem", subject_id |-> "mathematics_jee", chapter_number |-> 12, difficulty_level |-> 3, importance |-> 3],
    [id |-> "mathematics_permutations_and_combinations", subject_id |-> "mathematics_jee", chapter_number |-> 13, difficulty_level |-> 3, importance |-> 4],
    [id |-> "mathematics_mathematical_reasoning", subject_id |-> "mathematics_jee", chapter_number |-> 14, difficulty_level |-> 2, importance |-> 3],
    [id |-> "mathematics_sets_and_functions", subject_id |-> "mathematics_jee", chapter_number |-> 15, difficulty_level |-> 3, importance |-> 4],
    [id |-> "biology_cell_biology", subject_id |-> "biology_neet", chapter_number |-> 1, difficulty_level |-> 3, importance |-> 5],
    [id |-> "biology_genetics", subject_id |-> "biology_neet", chapter_number |-> 2, difficulty_level |-> 4, importance |-> 5],
    [id |-> "biology_evolution", subject_id |-> "biology_neet", chapter_number |-> 3, difficulty_level |-> 3, importance |-> 4],
    [id |-> "biology_plant_physiology", subject_id |-> "biology_neet", chapter_number |-> 4, difficulty_level |-> 4, importance |-> 4],
    [id |-> "biology_animal_physiology", subject_id |-> "biology_neet", chapter_number |-> 5, difficulty_level |-> 4, importance |-> 5],
    [id |-> "biology_ecology", subject_id |-> "biology_neet", chapter_number |-> 6, difficulty_level |-> 3, importance |-> 4],
    [id |-> "biology_reproduction", subject_id |-> "biology_neet", chapter_number |-> 7, difficulty_level |-> 3, importance |-> 4],
    [id |-> "biology_biotechnology", subject_id |-> "biology_neet", chapter_number |-> 8, difficulty_level |-> 4, importance |-> 4],
    [id |-> "biology_molecular_biology", subject_id |-> "biology_neet", chapter_number |-> 9, difficulty_level |-> 4, importance |-> 4],
    [id |-> "biology_human_health", subject_id |-> "biology_neet", chapter_number |-> 10, difficulty_level |-> 3, importance |-> 4],
    [id |-> "biology_morphology_of_plants", subject_id |-> "biology_neet", chapter_number |-> 11, difficulty_level |-> 2, importance |-> 3],
    [id |-> "biology_morphology_of_animals", subject_id |-> "biology_neet", chapter_number |-> 12, difficulty_level |-> 2, importance |-> 3],
    [id |-> "biology_diversity_of_life", subject_id |-> "biology_neet", chapter_number |-> 13, difficulty_level |-> 3, importance |-> 4],
    [id |-> "biology_biomolecules", subject_id |-> "biology_neet", chapter_number |-> 14, difficulty_level |-> 3, importance |-> 4],
    [id |-> "biology_respiration", subject_id |-> "biology_neet", chapter_number |-> 15, difficulty_level |-> 4, importance |-> 4]
  }

\* an activity without a topic (the dict has no 'topic_id' key)
NoTopic == "<none>"

VARIABLES
  users,          \* users JOIN user_profiles: user id -> the profile's columns
  catalog,        \* the topics table, as the subject ids whose seeded rows it holds
  user_progress,  \* rows of the user_progress table
  roadmaps,       \* rows of the roadmaps table
  roadmap_items,  \* rows of the roadmap_items table
  clock,          \* datetime.now() as a count of update_progress calls so far
  week,           \* the calendar week of datetime.now(), counted from week 1 of 2025
  uuids,          \* uuid4 values handed out to roadmaps so far
  ret,            \* the last call: its name, arguments and return value
  last_update,    \* history: the latest update_progress call of each (user, topic)
  inflight,       \* calls in progress: caller -> its position, locals and open transaction
  mock_tests,     \* rows of the mock_tests table
  mock_test_responses,  \* rows of the mock_test_responses table
  questions       \* rows of the questions table

vars ==
  <<users, catalog, user_progress, roadmaps, roadmap_items, clock, week, uuids, ret,
    last_update, inflight, mock_tests, mock_test_responses, questions>>

\* the rows of the topics table
topics == {t \in SeededTopics : t.subject_id \in catalog}

(***************************************************************************)
(* Arithmetic of the Python built-ins the engine uses.                     *)
(***************************************************************************)
RECURSIVE SumMastery(_)
\* sum(p['mastery_level'] for p in S)
SumMastery(S) ==
  IF S = {} THEN 0
  ELSE LET p == CHOOSE q \in S : TRUE IN p.mastery_level + SumMastery(S \ {p})

\* round(n / d) for integers n >= 0, d > 0: Python 3 rounds a tie to the even
\* neighbour; n / d is a correctly rounded double, so a tie is seen exactly
PyRound(n, d) ==
  LET q == n \div d
      r == n % d
  IN  IF 2 * r < d THEN q
      ELSE IF 2 * r > d THEN q + 1
      ELSE IF q % 2 = 0 THEN q ELSE q + 1

\* F(v), with v evaluated once
With(v, F(_)) == CHOOSE r \in {F(x) : x \in {v}} : TRUE

Min(a, b) == IF a < b THEN a ELSE b
Max(a, b) == IF a > b THEN a ELSE b

\* a mean of mastery levels (hundredths) as an exact fraction
Mean(S) == [num |-> SumMastery(S), den |-> Cardinality(S)]
\* the literal 0.0
ZeroMean == [num |-> 0, den |-> 1]
\* mean < c / 100, mean > c / 100, and mean a < mean b
MeanLT(m, c) == m.num < c * m.den
MeanGT(m, c) == m.num > c * m.den
MeanLess(a, b) == a.num * b.den < b.num * a.den

(***************************************************************************)
(* DatabaseManager                                                         *)
(***************************************************************************)
\* SELECT * FROM subjects WHERE exam_type = ? OR exam_type = 'BOTH'
get_subjects_for_exam(exam_type) ==
  SelectSeq(SubjectsTable, LAMBDA s : s.exam_type = exam_type \/ s.exam_type = "BOTH")

\* SELECT * FROM topics WHERE subject_id = ?
get_topics_for_subject(subject_id) ==
  {t \in topics : t.subject_id = subject_id}

\* SELECT u.*, up.* FROM users u JOIN user_profiles up ... : the row, or none
HasProfile(user_id) == user_id \in DOMAIN users
get_user_profile(user_id) == users[user_id]

\* the names of the subjects a topic id joins to through topics.subject_id
SubjectsOfTopic(topic_id) ==
  LET subject_ids == {t.subject_id : t \in {x \in topics : x.id = topic_id}}
  IN  {SubjectsTable[i].name : i \in {j \in 1..Len(SubjectsTable) :
                                        SubjectsTable[j].id \in subject_ids}}

\* SELECT up.*, ..., s.name as subject_name FROM user_progress up JOIN topics t
\* JOIN subjects s WHERE up.user_id = ?: rows whose topic is unknown drop out
get_user_progress(user_id) ==
  {[topic_id |-> p.topic_id, mastery_level |-> p.mastery_level, status |-> p.status,
    subject_name |-> CHOOSE s \in SubjectsOfTopic(p.topic_id) : TRUE] :
      p \in {q \in user_progress : q.user_id = user_id /\ SubjectsOfTopic(q.topic_id) # {}}}

\* the status update_progress derives from the call's mastery_level and attempts
StatusOf(mastery_level, attempts) ==
  IF mastery_level >= 80 THEN "completed"
  ELSE IF mastery_level >= 40 THEN "in_progress"
  ELSE IF attempts > 3 /\ mastery_level < 30 THEN "struggling"
  ELSE "in_progress"

\* the primary key update_progress gives the row: f"{user_id}_{topic_id}"
ProgressId(user_id, topic_id) == user_id \o "_" \o topic_id

\* INSERT OR REPLACE INTO user_progress: the rows that conflict with the new one on
\* the PRIMARY KEY id or on UNIQUE(user_id, topic_id) are deleted, then it is inserted
InsertOrReplace(tbl, row) ==
  {r \in tbl : r.id # row.id /\ ~(r.user_id = row.user_id /\ r.topic_id = row.topic_id)}
    \cup {row}

\* the row update_progress writes at time now
ProgressRow(user_id, topic_id, mastery_level, time_spent, attempts, correct_answers, now) ==
  [id |-> ProgressId(user_id, topic_id), user_id |-> user_id, topic_id |-> topic_id,
   mastery_level |-> mastery_level, time_spent |-> time_spent, last_studied |-> now,
   attempts |-> attempts, correct_answers |-> correct_answers,
   status |-> StatusOf(mastery_level, attempts)]

(***************************************************************************)
(* RoadmapGenerator.create_roadmap_strategy                                *)
(***************************************************************************)
\* the study phase from the mean mastery over all of the user's progress
PhaseOf(progress) ==
  IF progress = {} THEN "foundation"
  ELSE IF MeanLT(Mean(progress), 30) THEN "foundation"
  ELSE IF MeanLT(Mean(progress), 60) THEN "intermediate"
  ELSE "advanced"

\* subject_performance: each of the exam's subjects -> mean mastery of its progress
SubjectPerformance(progress, subjects) ==
  [n \in {subjects[i].name : i \in 1..Len(subjects)} |->
     LET subject_progress == {p \in progress : p.subject_name = n}
     IN  IF subject_progress # {} THEN Mean(subject_progress) ELSE ZeroMean]

\* a base_allocation that knows one split only, against which the JEE scenario is
\* told apart
BaseAllocationOneSplit(exam_type) ==
  [Physics |-> 25, Chemistry |-> 25, Biology |-> 50]

\* base_allocation: the JEE split, or the NEET split for any other exam_type
BaseAllocation(exam_type) ==
  IF exam_type = "JEE"
  THEN [Physics |-> 33, Chemistry |-> 33, Mathematics |-> 34]
  ELSE [Physics |-> 25, Chemistry |-> 25, Biology |-> 50]

\* the adjustment with its two directions exchanged: a weak subject loses 5 points
\* and a strong one gains 10
AdjustPercentExchanged(base_percent, performance) ==
  IF MeanLT(performance, 30) THEN Max(20, base_percent - 5)
  ELSE IF MeanGT(performance, 70) THEN Min(50, base_percent + 10)
  ELSE base_percent

\* one subject's adjusted percentage from its base percentage and its mean mastery
AdjustPercent(base_percent, performance) ==
  IF MeanLT(performance, 30) THEN Min(50, base_percent + 10)
  ELSE IF MeanGT(performance, 70) THEN Max(20, base_percent - 5)
  ELSE base_percent

\* adjusted_allocation before it is normalized
AdjustedAllocation(exam_type, subject_performance) ==
  LET base_allocation == BaseAllocation(exam_type)
  IN  [s \in DOMAIN base_allocation |->
         IF s \in DOMAIN subject_performance
         THEN AdjustPercent(base_allocation[s], subject_performance[s])
         ELSE base_allocation[s]]

RECURSIVE SumValues(_, _)
\* sum(d.values()) over the keys K of d
SumValues(d, K) ==
  IF K = {} THEN 0
  ELSE LET k == CHOOSE x \in K : TRUE IN d[k] + SumValues(d, K \ {k})

\* "Normalize to 100%": each percentage becomes round(percentage * 100 / total)
NormalizeAllocation(adjusted_allocation) ==
  LET total == SumValues(adjusted_allocation, DOMAIN adjusted_allocation)
  IN  [s \in DOMAIN adjusted_allocation |-> PyRound(adjusted_allocation[s] * 100, total)]

\* list.insert keeping a stable ascending order: x goes before the first element
\* whose key is strictly greater
InsertSorted(sorted, x, key) ==
  LET later == {i \in 1..Len(sorted) : MeanLess(key[x], key[sorted[i]])}
      at == IF later = {} THEN Len(sorted) + 1
            ELSE CHOOSE i \in later : \A j \in later : i <= j
  IN  SubSeq(sorted, 1, at - 1) \o <<x>> \o SubSeq(sorted, at, Len(sorted))

RECURSIVE SortByPerformance(_, _)
\* sorted(names, key = performance): ascending and stable
SortByPerformance(names, key) ==
  IF names = <<>> THEN <<>>
  ELSE InsertSorted(SortByPerformance(SubSeq(names, 1, Len(names) - 1), key),
                    names[Len(names)], key)

\* the subjects in the order of the subjects list, not sorted
SubjectsAsListed(subject_performance, subjects) ==
  [i \in 1..Len(subjects) |-> subjects[i].name]

\* get_priority_subjects: the subjects, worst mean mastery first; the dict's order
\* is the order of the subjects list
get_priority_subjects(subject_performance, subjects) ==
  SortByPerformance([i \in 1..Len(subjects) |-> subjects[i].name], subject_performance)

\* months_remaining, focus_areas and study_intensity are labels that nothing else
\* in the engine reads; the strategy keeps the fields the plan is built from
create_roadmap_strategy(user_profile, progress, subjects) ==
  LET subject_performance == SubjectPerformance(progress, subjects)
  IN  [phase |-> PhaseOf(progress),
       subject_allocation |->
         NormalizeAllocation(AdjustedAllocation(user_profile.exam_type, subject_performance)),
       subject_performance |-> subject_performance,
       priority_subjects |-> get_priority_subjects(subject_performance, subjects)]

(***************************************************************************)
(* RoadmapGenerator.select_topics_for_day and generate_weekly_plan         *)
(***************************************************************************)
\* the mastery select_topics_for_day sees for a topic: the user's progress row for
\* it, or 0.0 when there is none
MasteryOf(progress, topic_id) ==
  IF \E p \in progress : p.topic_id = topic_id
  THEN (CHOOSE p \in progress : p.topic_id = topic_id).mastery_level
  ELSE 0

\* the phase filter: foundation, intermediate, and advanced for anything else
Suitable(phase, mastery_level) ==
  IF phase = "foundation" THEN mastery_level < 40
  ELSE IF phase = "intermediate" THEN 30 <= mastery_level /\ mastery_level < 70
  ELSE mastery_level >= 60

\* a comes before b after sort(key = (importance, difficulty_level), reverse = True)
\* of a list in chapter_number order: the sort is stable
SortsBefore(a, b) ==
  \/ a.importance > b.importance
  \/ a.importance = b.importance /\ a.difficulty_level > b.difficulty_level
  \/ /\ a.importance = b.importance
     /\ a.difficulty_level = b.difficulty_level
     /\ a.chapter_number < b.chapter_number

\* the head of the sorted list
First(S) == CHOOSE t \in S : \A u \in S : ~SortsBefore(u, t)

RECURSIVE SortedPrefix(_, _)
\* the first n elements of the sorted list
SortedPrefix(S, n) ==
  IF n = 0 \/ S = {} THEN <<>>
  ELSE With(First(S), LAMBDA t : <<t>> \o SortedPrefix(S \ {t}, n - 1))

\* suitable_topics[:3] after the sort
TopThree(S) == SortedPrefix(S, 3)

\* a selection that returns nothing when the phase filter passes no topic
SelectWithoutFallback(subject_topics, user_id, phase) ==
  IF subject_topics = {} THEN <<>>
  ELSE With(get_user_progress(user_id), LAMBDA progress :
         TopThree({t \in subject_topics : Suitable(phase, MasteryOf(progress, t.id))}))

\* select_topics_for_day(topics, user_id, phase): reads the user's progress afresh
select_topics_for_day(subject_topics, user_id, phase) ==
  IF subject_topics = {} THEN <<>>
  ELSE With(get_user_progress(user_id), LAMBDA progress :
         With({t \in subject_topics : Suitable(phase, MasteryOf(progress, t.id))},
              LAMBDA suitable_topics :
                IF suitable_topics = {} THEN TopThree(subject_topics)
                ELSE TopThree(suitable_topics)))

\* int(study_hours_per_day * 0.7) and int(study_hours_per_day * 0.2): truncation
\* toward zero of the double product, which for whole hours below 90 is the
\* truncated exact product (90 * 0.7 is the first to fall short)
IntTenths(hours, tenths) ==
  IF hours >= 0 THEN (hours * tenths) \div 10 ELSE -(((-hours) * tenths) \div 10)

\* all_topics: subject name -> the subject's topics, for the exam's subjects
AllTopics(exam_type) ==
  LET subjects == get_subjects_for_exam(exam_type)
  IN  [n \in {subjects[i].name : i \in 1..Len(subjects)} |->
         get_topics_for_subject(
           subjects[CHOOSE i \in 1..Len(subjects) : subjects[i].name = n].id)]

\* all_topics.get(subject, [])
TopicsOrNone(all_topics, subject) ==
  IF subject \in DOMAIN all_topics THEN all_topics[subject] ELSE {}

\* a Sunday that gives the mock test what the revision leaves of the day
SundayPlanRemainder(study_hours_per_day) ==
  [day |-> 7, focus |-> "revision_and_assessment",
   activities |->
     << [type |-> "revision", subject |-> "Mixed", topic_id |-> NoTopic,
         duration |-> study_hours_per_day \div 2, priority |-> "none"],
        [type |-> "mock_test", subject |-> "Mixed", topic_id |-> NoTopic,
         duration |-> study_hours_per_day - (study_hours_per_day \div 2),
         priority |-> "none"] >>]

\* Sunday: revision and a mock test, study_hours_per_day // 2 each
SundayPlan(study_hours_per_day) ==
  [day |-> 7, focus |-> "revision_and_assessment",
   activities |->
     << [type |-> "revision", subject |-> "Mixed", topic_id |-> NoTopic,
         duration |-> study_hours_per_day \div 2, priority |-> "none"],
        [type |-> "mock_test", subject |-> "Mixed", topic_id |-> NoTopic,
         duration |-> study_hours_per_day \div 2, priority |-> "none"] >>]

\* a regular day whose revision takes the whole day on top of the two subjects
DayActivitiesFullRevision(primary_subject, primary_topics, secondary_subject, secondary_topics, study_hours_per_day) ==
  LET primary_hours == IntTenths(study_hours_per_day, 7)
      secondary_hours == IntTenths(study_hours_per_day, 2)
      primary ==
        IF primary_topics # <<>>
        THEN << [type |-> "concept_study", subject |-> primary_subject,
                 topic_id |-> primary_topics[1].id, duration |-> primary_hours,
                 priority |-> "high"] >>
        ELSE <<>>
      secondary ==
        IF secondary_topics # <<>>
        THEN << [type |-> "practice", subject |-> secondary_subject,
                 topic_id |-> secondary_topics[1].id, duration |-> secondary_hours,
                 priority |-> "medium"] >>
        ELSE <<>>
  IN  primary \o secondary \o
      << [type |-> "revision", subject |-> "Mixed", topic_id |-> NoTopic,
          duration |-> study_hours_per_day, priority |-> "low"] >>

\* a regular day whose secondary activity takes the last topic of its pool
DayActivitiesLastOfPool(primary_subject, primary_topics, secondary_subject, secondary_topics, study_hours_per_day) ==
  LET primary_hours == IntTenths(study_hours_per_day, 7)
      secondary_hours == IntTenths(study_hours_per_day, 2)
      revision_hours == study_hours_per_day - primary_hours - secondary_hours
      primary ==
        IF primary_topics # <<>>
        THEN << [type |-> "concept_study", subject |-> primary_subject,
                 topic_id |-> primary_topics[1].id, duration |-> primary_hours,
                 priority |-> "high"] >>
        ELSE <<>>
      secondary ==
        IF secondary_topics # <<>>
        THEN << [type |-> "practice", subject |-> secondary_subject,
                 topic_id |-> secondary_topics[Len(secondary_topics)].id,
                 duration |-> secondary_hours, priority |-> "medium"] >>
        ELSE <<>>
  IN  primary \o secondary \o
      << [type |-> "revision", subject |-> "Mixed", topic_id |-> NoTopic,
          duration |-> revision_hours, priority |-> "low"] >>

\* the activities of a regular day from the topics selected for its two subjects
DayActivities(primary_subject, primary_topics, secondary_subject, secondary_topics, study_hours_per_day) ==
  LET primary_hours == IntTenths(study_hours_per_day, 7)
      secondary_hours == IntTenths(study_hours_per_day, 2)
      revision_hours == study_hours_per_day - primary_hours - secondary_hours
      primary ==
        IF primary_topics # <<>>
        THEN << [type |-> "concept_study", subject |-> primary_subject,
                 topic_id |-> primary_topics[1].id, duration |-> primary_hours,
                 priority |-> "high"] >>
        ELSE <<>>
      secondary ==
        IF secondary_topics # <<>>
        THEN << [type |-> "practice", subject |-> secondary_subject,
                 topic_id |-> secondary_topics[1].id, duration |-> secondary_hours,
                 priority |-> "medium"] >>
        ELSE <<>>
  IN  primary \o secondary \o
      << [type |-> "revision", subject |-> "Mixed", topic_id |-> NoTopic,
          duration |-> revision_hours, priority |-> "low"] >>

\* a regular study day (1..6)
RegularDayPlan(day, strategy, user_id, study_hours_per_day, all_topics) ==
  LET n == Len(strategy.priority_subjects)
      primary_subject == strategy.priority_subjects[(day % n) + 1]
      secondary_subject == strategy.priority_subjects[((day + 1) % n) + 1]
  IN  With(select_topics_for_day(TopicsOrNone(all_topics, primary_subject), user_id,
                                 strategy.phase),
           LAMBDA primary_topics :
      With(IF secondary_subject \in DOMAIN all_topics
           THEN select_topics_for_day(all_topics[secondary_subject], user_id, strategy.phase)
           ELSE <<>>,
           LAMBDA secondary_topics :
             [day |-> day, focus |-> primary_subject,
              activities |-> DayActivities(primary_subject, primary_topics, secondary_subject,
                                           secondary_topics, study_hours_per_day)]))

\* generate_weekly_plan: Monday (1) to Sunday (7)
generate_weekly_plan(strategy, user_profile) ==
  With(AllTopics(user_profile.exam_type), LAMBDA all_topics :
    [day \in 1..7 |->
       IF day = 7 THEN SundayPlan(user_profile.study_hours_per_day)
       ELSE RegularDayPlan(day, strategy, user_profile.user_id,
                           user_profile.study_hours_per_day, all_topics)])

(***************************************************************************)
(* The calendar: datetime.now() + timedelta(weeks = week_offset), its ISO  *)
(* week number and its year.  A year has 52 weeks here.                    *)
(***************************************************************************)
WeekNumber(w) == (w % 52) + 1
YearOf(w) == 2025 + (w \div 52)

(***************************************************************************)
(* RoadmapGenerator.save_roadmap, get_roadmap                              *)
(***************************************************************************)
\* the priority column of an item
PriorityCode(priority) ==
  IF priority = "high" THEN 1 ELSE IF priority = "medium" THEN 2 ELSE 3

\* rows for every activity of a plan, with or without a topic_id
PlanItemsOfEveryActivity(roadmap_id, weekly_plan) ==
  {[id |-> <<roadmap_id, d, k>>, roadmap_id |-> roadmap_id,
    topic_id |-> weekly_plan[d].activities[k].topic_id, day_of_week |-> weekly_plan[d].day,
    study_hours |-> weekly_plan[d].activities[k].duration,
    priority |-> PriorityCode(weekly_plan[d].activities[k].priority),
    status |-> "pending"] :
      <<d, k>> \in {x \in (1..7) \X (1..3) : x[2] <= Len(weekly_plan[x[1]].activities)}}

\* the roadmap_items rows of a plan: one per activity with a topic_id
PlanItems(roadmap_id, weekly_plan) ==
  {[id |-> <<roadmap_id, d, k>>, roadmap_id |-> roadmap_id,
    topic_id |-> weekly_plan[d].activities[k].topic_id, day_of_week |-> weekly_plan[d].day,
    study_hours |-> weekly_plan[d].activities[k].duration,
    priority |-> PriorityCode(weekly_plan[d].activities[k].priority),
    status |-> "pending"] :
      <<d, k>> \in {x \in (1..7) \X (1..3) :
                     /\ x[2] <= Len(weekly_plan[x[1]].activities)
                     /\ weekly_plan[x[1]].activities[x[2]].topic_id # NoTopic}}

\* the rows of roadmaps for (user, week_number, year)
RoadmapsFor(user_id, week_number, year) ==
  {r \in roadmaps : r.user_id = user_id /\ r.week_number = week_number /\ r.year = year}

\* SQL NULL
Null == "<null>"

\* one row of get_roadmap's LEFT JOIN read through the handler's column indexes.
\* roadmaps has seven columns, so result[6] is r.updated_at and every later index
\* is one column to the left of the name it is given: 'topic_id' is
\* ri.roadmap_id, 'day_of_week' is ri.topic_id, 'study_hours' is ri.day_of_week,
\* 'priority' is ri.study_hours, 'status' is ri.priority, 'topic_name' is
\* ri.status and 'subject_name' is the topic's name (here its id)
JoinedItem(r, ri) ==
  [id |-> r.updated_at, topic_id |-> ri.roadmap_id, day_of_week |-> ri.topic_id,
   study_hours |-> ri.day_of_week, priority |-> ri.study_hours, status |-> ri.priority,
   topic_name |-> ri.status,
   subject_name |-> IF \E t \in topics : t.id = ri.topic_id THEN ri.topic_id ELSE Null]

\* the row a roadmap without items joins to: every ri column is NULL
NullItem(r) ==
  [id |-> r.updated_at, topic_id |-> Null, day_of_week |-> Null, study_hours |-> Null,
   priority |-> Null, status |-> Null, topic_name |-> Null, subject_name |-> Null]

\* get_roadmap: None when no row matches; else the roadmap columns of the first
\* joined row (SQLite scans roadmaps in rowid order, the order of insertion) and an
\* item for every joined row, since r.updated_at is never NULL
get_roadmap(user_id, w) ==
  LET matching == RoadmapsFor(user_id, WeekNumber(w), YearOf(w))
      first == CHOOSE r \in matching : \A q \in matching : r.id <= q.id
  IN  IF matching = {} THEN Null
      ELSE [id |-> first.id, user_id |-> first.user_id, week_number |-> first.week_number,
            year |-> first.year, status |-> first.status,
            items |->
              UNION {IF \E ri \in roadmap_items : ri.roadmap_id = r.id
                     THEN {JoinedItem(r, ri) : ri \in {x \in roadmap_items : x.roadmap_id = r.id}}
                     ELSE {NullItem(r)} : r \in matching}]

(***************************************************************************)
(* Inputs of the calls.                                                    *)
(***************************************************************************)
\* exam_type is free text in create_user
ExamTypes == {"JEE", "NEET", "OTHER"}
\* ids create_user can draw (uuid4: no underscore)
UserPool == {"u1"}
\* user ids and topic ids a caller passes: update_progress takes any strings
CallerUsers == {"u1", "u1_physics"}
CallerTopics == {"physics_mechanics", "mechanics"}
\* (mastery_level, time_spent, attempts, correct_answers) of an update
Snapshots ==
  { [mastery_level |-> 85, time_spent |-> 10, attempts |-> 1, correct_answers |-> 1],
    [mastery_level |-> 35, time_spent |-> 20, attempts |-> 5, correct_answers |-> 2],
    [mastery_level |-> 20, time_spent |-> 30, attempts |-> 5, correct_answers |-> 1] }
WeekOffsets == {0, 1}

(***************************************************************************)
(* The operations.                                                         *)
(***************************************************************************)
\* POST /api/users -> DatabaseManager.create_user: a users row and a profile row
\* with the column defaults (study_hours_per_day 4)
CreateUser(user_id, exam_type) ==
  /\ user_id \notin DOMAIN users
  /\ users' = [u \in DOMAIN users \cup {user_id} |->
                 IF u = user_id
                 THEN [user_id |-> user_id, exam_type |-> exam_type, study_hours_per_day |-> 4]
                 ELSE users[u]]
  /\ ret' = [op |-> "create_user", user_id |-> user_id]
  /\ UNCHANGED <<catalog, user_progress, roadmaps, roadmap_items, clock, week, uuids, last_update, inflight,
                 mock_tests, mock_test_responses, questions>>

\* PUT /api/users/{user_id} -> update_user_profile(study_hours_per_day = hours): the
\* UPDATE names a column updated_at that user_profiles does not have, so SQLite
\* raises OperationalError before any row changes and the handler answers 500
UpdateUserProfile(user_id, hours) ==
  /\ ret' = [op |-> "update_user_profile", user_id |-> user_id, hours |-> hours,
             error |-> "no such column: updated_at"]
  /\ UNCHANGED <<users, catalog, user_progress, roadmaps, roadmap_items, clock, week, uuids, last_update, inflight,
                 mock_tests, mock_test_responses, questions>>

\* POST /api/users/{user_id}/progress -> DatabaseManager.update_progress
UpdateProgress(user_id, topic_id, snap) ==
  /\ clock < MaxClock
  /\ clock' = clock + 1
  /\ user_progress' =
       InsertOrReplace(user_progress,
         ProgressRow(user_id, topic_id, snap.mastery_level, snap.time_spent,
                     snap.attempts, snap.correct_answers, clock + 1))
  /\ ret' = [op |-> "update_progress", user_id |-> user_id, topic_id |-> topic_id,
             snap |-> snap]
  /\ last_update' =
       {c \in last_update : ~(c.user_id = user_id /\ c.topic_id = topic_id)}
         \cup {[user_id |-> user_id, topic_id |-> topic_id, snap |-> snap]}
  /\ UNCHANGED <<users, catalog, roadmaps, roadmap_items, week, uuids, inflight,
                 mock_tests, mock_test_responses, questions>>

\* a generate_weekly_roadmap that stores a roadmap row before it looks up the profile
generate_weekly_roadmap_row_first(op, user_id, week_offset) ==
  IF ~HasProfile(user_id)
  THEN /\ ret' = [op |-> op, user_id |-> user_id, week_offset |-> week_offset,
                  generated |-> FALSE, result |-> [error |-> "User not found"]]
       /\ uuids < MaxRoadmaps
       /\ uuids' = uuids + 1
       /\ roadmaps' = roadmaps \cup
            {[id |-> uuids + 1, user_id |-> user_id,
              week_number |-> WeekNumber(week + week_offset),
              year |-> YearOf(week + week_offset), status |-> "active",
              updated_at |-> clock]}
       /\ UNCHANGED roadmap_items
  ELSE LET user_profile == get_user_profile(user_id)
           week_number == WeekNumber(week + week_offset)
           year == YearOf(week + week_offset)
           progress == get_user_progress(user_id)
           subjects == get_subjects_for_exam(user_profile.exam_type)
           roadmap_id == uuids + 1
       IN  /\ uuids < MaxRoadmaps
           /\ uuids' = uuids + 1
           /\ \E roadmap_strategy \in {create_roadmap_strategy(user_profile, progress, subjects)} :
              \E weekly_plan \in {generate_weekly_plan(roadmap_strategy, user_profile)} :
                /\ roadmaps' = roadmaps \cup
                     {[id |-> roadmap_id, user_id |-> user_id, week_number |-> week_number,
                       year |-> year, status |-> "active", updated_at |-> clock]}
                /\ roadmap_items' = roadmap_items \cup PlanItems(roadmap_id, weekly_plan)
                /\ ret' = [op |-> op, user_id |-> user_id, week_offset |-> week_offset,
                           generated |-> TRUE,
                           result |-> [roadmap_id |-> roadmap_id, week_number |-> week_number,
                                       year |-> year, exam_type |-> user_profile.exam_type,
                                       study_hours_per_day |-> user_profile.study_hours_per_day,
                                       weekly_plan |-> weekly_plan, strategy |-> roadmap_strategy]]

\* generate_weekly_roadmap(user_id, week_offset): its return value and its writes
generate_weekly_roadmap(op, user_id, week_offset) ==
  IF ~HasProfile(user_id)
  THEN /\ ret' = [op |-> op, user_id |-> user_id, week_offset |-> week_offset,
                  generated |-> FALSE, result |-> [error |-> "User not found"]]
       /\ UNCHANGED <<roadmaps, roadmap_items, uuids>>
  ELSE LET user_profile == get_user_profile(user_id)
           week_number == WeekNumber(week + week_offset)
           year == YearOf(week + week_offset)
           progress == get_user_progress(user_id)
           subjects == get_subjects_for_exam(user_profile.exam_type)
           roadmap_id == uuids + 1
       IN  /\ uuids < MaxRoadmaps
           /\ uuids' = uuids + 1
           /\ \E roadmap_strategy \in {create_roadmap_strategy(user_profile, progress, subjects)} :
              \E weekly_plan \in {generate_weekly_plan(roadmap_strategy, user_profile)} :
                /\ roadmaps' = roadmaps \cup
                     {[id |-> roadmap_id, user_id |-> user_id, week_number |-> week_number,
                       year |-> year, status |-> "active", updated_at |-> clock]}
                /\ roadmap_items' = roadmap_items \cup PlanItems(roadmap_id, weekly_plan)
                /\ ret' = [op |-> op, user_id |-> user_id, week_offset |-> week_offset,
                           generated |-> TRUE,
                           result |-> [roadmap_id |-> roadmap_id, week_number |-> week_number,
                                       year |-> year, exam_type |-> user_profile.exam_type,
                                       study_hours_per_day |-> user_profile.study_hours_per_day,
                                       weekly_plan |-> weekly_plan, strategy |-> roadmap_strategy]]

\* POST /api/roadmap/{user_id}
GenerateRoadmap(user_id, week_offset) ==
  /\ generate_weekly_roadmap("generate_roadmap", user_id, week_offset)
  /\ UNCHANGED <<users, catalog, user_progress, clock, week, last_update, inflight,
                 mock_tests, mock_test_responses, questions>>

\* a GET that marks the roadmaps it returns as completed
GetRoadmapMarking(user_id, week_offset) ==
  /\ IF RoadmapsFor(user_id, WeekNumber(week + week_offset), YearOf(week + week_offset)) # {}
     THEN /\ ret' = [op |-> "get_roadmap", user_id |-> user_id, week_offset |-> week_offset,
                     generated |-> FALSE, result |-> get_roadmap(user_id, week + week_offset)]
          /\ roadmaps' =
               {IF r \in RoadmapsFor(user_id, WeekNumber(week + week_offset),
                                     YearOf(week + week_offset))
                THEN [r EXCEPT !.status = "completed"] ELSE r : r \in roadmaps}
          /\ UNCHANGED <<roadmap_items, uuids>>
     ELSE generate_weekly_roadmap("get_roadmap", user_id, week_offset)
  /\ UNCHANGED <<users, catalog, user_progress, clock, week, last_update, inflight,
                 mock_tests, mock_test_responses, questions>>

\* GET /api/roadmap/{user_id}: the stored roadmap, or a new one if none exists
GetRoadmap(user_id, week_offset) ==
  /\ IF RoadmapsFor(user_id, WeekNumber(week + week_offset), YearOf(week + week_offset)) # {}
     THEN /\ ret' = [op |-> "get_roadmap", user_id |-> user_id, week_offset |-> week_offset,
                     generated |-> FALSE, result |-> get_roadmap(user_id, week + week_offset)]
          /\ UNCHANGED <<roadmaps, roadmap_items, uuids>>
     ELSE generate_weekly_roadmap("get_roadmap", user_id, week_offset)
  /\ UNCHANGED <<users, catalog, user_progress, clock, week, last_update, inflight,
                 mock_tests, mock_test_responses, questions>>

\* a fresh database: init_database and populate_initial_data have run
Init ==
  /\ users = <<>>
  /\ catalog = {SubjectsTable[i].id : i \in 1..Len(SubjectsTable)}
  /\ user_progress = {}
  /\ roadmaps = {}
  /\ roadmap_items = {}
  /\ clock = 0
  /\ week = 51
  /\ uuids = 0
  /\ ret = [op |-> "init"]
  /\ mock_tests = {}
  /\ mock_test_responses = {}
  /\ questions = {}
  /\ inflight = <<>>
  /\ last_update = {}

Next ==
  \/ \E user_id \in UserPool, exam_type \in ExamTypes : CreateUser(user_id, exam_type)
  \/ \E user_id \in UserPool, hours \in {MaxHours} : UpdateUserProfile(user_id, hours)
  \/ \E user_id \in CallerUsers, topic_id \in CallerTopics, snap \in Snapshots :
       UpdateProgress(user_id, topic_id, snap)
  \/ \E user_id \in CallerUsers, week_offset \in WeekOffsets :
       GenerateRoadmap(user_id, week_offset)
  \/ \E user_id \in CallerUsers, week_offset \in WeekOffsets :
       GetRoadmap(user_id, week_offset)

Spec == Init /\ [][Next]_vars

(***************************************************************************)
(* Stored states drawn directly: a user with a profile and progress rows   *)
(* that update_progress calls have written, one call per row.              *)
(***************************************************************************)
\* the snapshot of the call that wrote a row with this mastery level
SnapshotAt(mastery_level) ==
  [mastery_level |-> mastery_level, time_spent |-> 10, attempts |-> 1, correct_answers |-> 1]

\* the rows the calls leave for the topics topic_ids[i], i in studied, updated in
\* the order of i
StoredProgress(user_id, topic_ids, studied, level) ==
  {ProgressRow(user_id, topic_ids[i], level[i], 10, 1, 1, Cardinality({j \in studied : j <= i})) :
     i \in studied}

\* the history of those calls
StoredHistory(user_id, topic_ids, studied, level) ==
  {[user_id |-> user_id, topic_id |-> topic_ids[i], snap |-> SnapshotAt(level[i])] : i \in studied}

\* the profile create_user writes for the user, with the given daily hours
ProfileOf(user_id, exam_type, study_hours_per_day) ==
  [user_id |-> user_id, exam_type |-> exam_type, study_hours_per_day |-> study_hours_per_day]

(***************************************************************************)
(* create_roadmap_strategy over the stored states of one user.             *)
(***************************************************************************)
\* topics the user may have studied: two of Physics and one of each other subject
StrategyTopics ==
  << "physics_mechanics", "physics_optics", "chemistry_organic_reactions",
     "mathematics_calculus", "biology_genetics" >>
\* mastery levels of the rows: weak, the 0.3 edge, middle, the 0.7 edge, strong
StrategyLevels == {20, 30, 50, 70, 75}

InitStrategy ==
  /\ \E exam_type \in ExamTypes :
       users = [u \in UserPool |-> ProfileOf(u, exam_type, 4)]
  /\ catalog = {SubjectsTable[i].id : i \in 1..Len(SubjectsTable)}
  /\ \E studied \in SUBSET (1..Len(StrategyTopics)) :
       /\ Cardinality(studied) <= MaxRows
       /\ clock = Cardinality(studied)
       /\ \E level \in [studied -> StrategyLevels] :
            /\ user_progress = StoredProgress("u1", StrategyTopics, studied, level)
            /\ last_update = StoredHistory("u1", StrategyTopics, studied, level)
  /\ roadmaps = {}
  /\ roadmap_items = {}
  /\ week = 51
  /\ uuids = 0
  /\ ret = [op |-> "init"]
  /\ mock_tests = {}
  /\ mock_test_responses = {}
  /\ questions = {}
  /\ inflight = <<>>

\* RoadmapGenerator.create_roadmap_strategy(user_profile, progress, subjects) with
\* the arguments generate_weekly_roadmap passes; adjusted_allocation is the local
\* dictionary of that name as it stands before it is normalized
CreateRoadmapStrategy(user_id) ==
  /\ HasProfile(user_id)
  /\ \E user_profile \in {get_user_profile(user_id)} :
     \E progress \in {get_user_progress(user_id)} :
     \E subjects \in {get_subjects_for_exam(user_profile.exam_type)} :
       ret' = [op |-> "create_roadmap_strategy", user_id |-> user_id,
               exam_type |-> user_profile.exam_type,
               adjusted_allocation |->
                 AdjustedAllocation(user_profile.exam_type,
                                    SubjectPerformance(progress, subjects)),
               strategy |-> create_roadmap_strategy(user_profile, progress, subjects)]
  /\ UNCHANGED <<users, catalog, user_progress, roadmaps, roadmap_items, clock, week, uuids, last_update, inflight,
                 mock_tests, mock_test_responses, questions>>

NextStrategy == \E user_id \in UserPool : CreateRoadmapStrategy(user_id)

SpecStrategy == InitStrategy /\ [][NextStrategy]_vars

(***************************************************************************)
(* generate_weekly_roadmap over the stored states of one user.  The        *)
(* generator reads study_hours_per_day from the profile row and the topics *)
(* from the topics table: both are drawn here, every whole number of hours *)
(* up to MaxHours and every subset of the subjects having its topic rows.  *)
(***************************************************************************)
\* topics the user may have studied: the first choices of Physics and Chemistry
PlanTopics == << "physics_electricity_and_magnetism", "chemistry_organic_reactions" >>
\* mastery levels of the rows
PlanLevels == {20, 50, 85}

InitPlan ==
  /\ \E exam_type \in ExamTypes, study_hours_per_day \in 0..MaxHours :
       users = [u \in UserPool |-> ProfileOf(u, exam_type, study_hours_per_day)]
  /\ catalog \in SUBSET {SubjectsTable[i].id : i \in 1..Len(SubjectsTable)}
  /\ \E studied \in SUBSET (1..Len(PlanTopics)) :
       /\ clock = Cardinality(studied)
       /\ \E level \in [studied -> PlanLevels] :
            /\ user_progress = StoredProgress("u1", PlanTopics, studied, level)
            /\ last_update = StoredHistory("u1", PlanTopics, studied, level)
  /\ roadmaps = {}
  /\ roadmap_items = {}
  /\ week = 51
  /\ uuids = 0
  /\ ret = [op |-> "init"]
  /\ mock_tests = {}
  /\ mock_test_responses = {}
  /\ questions = {}
  /\ inflight = <<>>

NextPlan ==
  \E user_id \in UserPool, week_offset \in WeekOffsets : GenerateRoadmap(user_id, week_offset)

SpecPlan == InitPlan /\ [][NextPlan]_vars

(***************************************************************************)
(* The roadmap handlers over a store that starts empty: create_user, the   *)
(* POST and GET of a roadmap and the PUT of an item's status.              *)
(***************************************************************************)
\* status strings a caller sends: Body(...) accepts any string
ItemStatuses == {"pending", "completed", "skipped", "done"}
\* an item id that no roadmap item has
UnknownItem == <<0, 0, 0>>
\* item ids a caller sends: Monday's first item of each roadmap, and an unknown one
CallerItems == {<<r, 1, 1>> : r \in 1..MaxRoadmaps} \cup {UnknownItem}

\* PUT /api/roadmap/items/{item_id} -> update_roadmap_progress(item_id, status):
\* UPDATE roadmap_items SET status = ? WHERE id = ?, then the success message
UpdateRoadmapItem(item_id, status) ==
  /\ roadmap_items' =
       {IF ri.id = item_id THEN [ri EXCEPT !.status = status] ELSE ri : ri \in roadmap_items}
  /\ ret' = [op |-> "update_roadmap_item", item_id |-> item_id, status |-> status,
             result |-> [message |-> "Roadmap item updated successfully"]]
  /\ UNCHANGED <<users, catalog, user_progress, roadmaps, clock, week, uuids, last_update, inflight,
                 mock_tests, mock_test_responses, questions>>

NextRoadmap ==
  \/ \E user_id \in UserPool, exam_type \in ExamTypes : CreateUser(user_id, exam_type)
  \/ \E user_id \in CallerUsers, week_offset \in WeekOffsets :
       GenerateRoadmap(user_id, week_offset)
  \/ \E user_id \in CallerUsers, week_offset \in WeekOffsets :
       GetRoadmap(user_id, week_offset)
  \/ \E item_id \in CallerItems, status \in ItemStatuses : UpdateRoadmapItem(item_id, status)

SpecRoadmap == Init /\ [][NextRoadmap]_vars

(***************************************************************************)
(* RoadmapGenerator.get_roadmap_analytics and                              *)
(* adapt_roadmap_based_on_performance.  A completion rate is the exact     *)
(* fraction [num, den] of its percentage.                                  *)
(***************************************************************************)
\* the keys (year, week_number) of the query's groups: the user's roadmaps that
\* have items and whose week_number >= isocalendar week of now - weeks_back
TrackedWeeks(user_id, weeks_back) ==
  {<<r.year, r.week_number>> :
     r \in {x \in roadmaps : /\ x.user_id = user_id
                             /\ x.week_number >= WeekNumber(week) - weeks_back
                             /\ \E ri \in roadmap_items : ri.roadmap_id = x.id}}

\* the items the query joins to the user's roadmaps of one (year, week_number)
ItemsOfWeek(user_id, key) ==
  {ri \in roadmap_items :
     \E r \in roadmaps : /\ r.id = ri.roadmap_id /\ r.user_id = user_id
                         /\ r.year = key[1] /\ r.week_number = key[2]}

\* weekly_stats[week_key]: the counts by status and their total; a status other
\* than the three adds to the total only
WeekStats(user_id, key) ==
  LET items == ItemsOfWeek(user_id, key)
  IN  [completed |-> Cardinality({ri \in items : ri.status = "completed"}),
       pending |-> Cardinality({ri \in items : ri.status = "pending"}),
       skipped |-> Cardinality({ri \in items : ri.status = "skipped"}),
       total |-> Cardinality(items)]

\* completion_rate = completed / total * 100 if total > 0 else 0
CompletionRate(stats) ==
  IF stats.total > 0 THEN [num |-> stats.completed * 100, den |-> stats.total]
  ELSE [num |-> 0, den |-> 1]

RECURSIVE SumRates(_, _)
\* sum(w['completion_rate'] for w in weekly_stats.values()) over the weeks K
SumRates(user_id, K) ==
  IF K = {} THEN [num |-> 0, den |-> 1]
  ELSE LET k == CHOOSE x \in K : TRUE
           rate == CompletionRate(WeekStats(user_id, k))
           rest == SumRates(user_id, K \ {k})
       IN  [num |-> rate.num * rest.den + rest.num * rate.den, den |-> rate.den * rest.den]

\* the sum of the rates of the weeks K divided by their number, 0 for no week
MeanRate(user_id, K) ==
  IF K = {} THEN [num |-> 0, den |-> 1]
  ELSE With(SumRates(user_id, K),
            LAMBDA total : [num |-> total.num, den |-> total.den * Cardinality(K)])

get_roadmap_analytics(user_id, weeks_back) ==
  With(TrackedWeeks(user_id, weeks_back), LAMBDA tracked :
    [weekly_stats |-> [k \in tracked |-> WeekStats(user_id, k)],
     avg_completion_rate |-> MeanRate(user_id, tracked),
     total_weeks_tracked |-> Cardinality(tracked)])

\* the directives: reduce_workload, an increase_focus per subject with two or
\* more struggling topics, increase_difficulty (the list, as a set)
Adaptations(avg_completion_rate, progress) ==
  (IF MeanLT(avg_completion_rate, 50)
   THEN {[type |-> "reduce_workload", subject |-> "none"]} ELSE {})
  \cup {[type |-> "increase_focus", subject |-> n] :
          n \in {p.subject_name : p \in {q \in progress :
                   /\ q.status = "struggling"
                   /\ Cardinality({o \in progress : /\ o.status = "struggling"
                                                    /\ o.subject_name = q.subject_name}) >= 2}}}
  \cup (IF /\ MeanGT(avg_completion_rate, 80)
           /\ progress # {}
           /\ MeanGT(Mean(progress), 70)
        THEN {[type |-> "increase_difficulty", subject |-> "none"]} ELSE {})

adapt_roadmap_based_on_performance(user_id) ==
  With(Adaptations(get_roadmap_analytics(user_id, 2).avg_completion_rate,
                   get_user_progress(user_id)),
       LAMBDA adaptations :
         [adaptations |-> adaptations, recommended_changes |-> adaptations # {}])

\* get_roadmap_analytics(user_id, weeks_back): SELECT only
GetRoadmapAnalytics(user_id, weeks_back) ==
  /\ ret' = [op |-> "get_roadmap_analytics", user_id |-> user_id, weeks_back |-> weeks_back,
             result |-> get_roadmap_analytics(user_id, weeks_back)]
  /\ UNCHANGED <<users, catalog, user_progress, roadmaps, roadmap_items, clock, week, uuids, last_update, inflight,
                 mock_tests, mock_test_responses, questions>>

\* an adaptation that applies its reduce_workload directive to the profile
AdaptRoadmapApplying(user_id) ==
  /\ \E result \in {adapt_roadmap_based_on_performance(user_id)} :
       /\ ret' = [op |-> "adapt_roadmap", user_id |-> user_id, result |-> result]
       /\ users' = [u \in DOMAIN users |->
                      IF u = user_id /\ \E a \in result.adaptations : a.type = "reduce_workload"
                      THEN [users[u] EXCEPT !.study_hours_per_day = @ - 1]
                      ELSE users[u]]
  /\ UNCHANGED <<catalog, user_progress, roadmaps, roadmap_items, clock, week, uuids, last_update, inflight,
                 mock_tests, mock_test_responses, questions>>

\* adapt_roadmap_based_on_performance(user_id): reads the analytics of two weeks
\* back and the user's progress, returns the directives
AdaptRoadmap(user_id) ==
  /\ ret' = [op |-> "adapt_roadmap", user_id |-> user_id,
             result |-> adapt_roadmap_based_on_performance(user_id)]
  /\ UNCHANGED <<users, catalog, user_progress, roadmaps, roadmap_items, clock, week, uuids, last_update, inflight,
                 mock_tests, mock_test_responses, questions>>

(***************************************************************************)
(* The analytics over stored states drawn directly: a user, progress rows, *)
(* and roadmaps generated for last week, this week and next week whose     *)
(* items update_roadmap_progress calls have marked completed.              *)
(***************************************************************************)
\* weeks of now
AnalyticsWeeks == {10, 51}
\* the week a roadmap was generated for, relative to now
WeekShifts == {-1, 0, 1}
\* how many of a roadmap's items are completed
CompletionCounts == {0, 5, 6, 10, 12}
\* topics the user may have studied, and their mastery levels
AnalyticsTopics == << "physics_mechanics" >>
AnalyticsLevels == {50, 85}

\* the items with the first n of them, in the order of their days, completed
MarkCompleted(items, n) ==
  {IF Cardinality({x \in items : \/ x.id[2] < ri.id[2]
                                 \/ (x.id[2] = ri.id[2] /\ x.id[3] < ri.id[3])}) < n
   THEN [ri EXCEPT !.status = "completed"] ELSE ri : ri \in items}

InitAnalytics ==
  /\ \E exam_type \in ExamTypes : users = [u \in UserPool |-> ProfileOf(u, exam_type, 4)]
  /\ catalog = {SubjectsTable[i].id : i \in 1..Len(SubjectsTable)}
  /\ week \in AnalyticsWeeks
  /\ \E studied \in SUBSET (1..Len(AnalyticsTopics)) :
       /\ clock = Cardinality(studied)
       /\ \E level \in [studied -> AnalyticsLevels] :
            /\ user_progress = StoredProgress("u1", AnalyticsTopics, studied, level)
            /\ last_update = StoredHistory("u1", AnalyticsTopics, studied, level)
  /\ \E shifts \in SUBSET WeekShifts :
       /\ Cardinality(shifts) <= MaxRoadmaps
       /\ uuids = Cardinality(shifts)
       /\ roadmaps =
            {[id |-> Cardinality({x \in shifts : x <= shift}), user_id |-> "u1",
              week_number |-> WeekNumber(week + shift), year |-> YearOf(week + shift),
              status |-> "active", updated_at |-> clock] : shift \in shifts}
       /\ \E weekly_plan \in {generate_weekly_plan(
                                create_roadmap_strategy(users["u1"], get_user_progress("u1"),
                                  get_subjects_for_exam(users["u1"].exam_type)),
                                users["u1"])} :
          \E completed \in [shifts -> CompletionCounts] :
            roadmap_items =
              UNION {MarkCompleted(PlanItems(Cardinality({x \in shifts : x <= shift}), weekly_plan),
                                   completed[shift]) : shift \in shifts}
  /\ ret = [op |-> "init"]
  /\ mock_tests = {}
  /\ mock_test_responses = {}
  /\ questions = {}
  /\ inflight = <<>>

\* GET /api/roadmap/{user_id}/analytics calls get_roadmap_analytics(user_id), whose
\* weeks_back is 4, and adapt_roadmap_based_on_performance(user_id), which calls
\* get_roadmap_analytics(user_id, 2)
NextAnalytics ==
  \/ \E user_id \in CallerUsers, weeks_back \in {2, 4} : GetRoadmapAnalytics(user_id, weeks_back)
  \/ \E user_id \in CallerUsers : AdaptRoadmap(user_id)

SpecAnalytics == InitAnalytics /\ [][NextAnalytics]_vars

(***************************************************************************)
(* Two update_progress calls for one (user, topic) running at once, each   *)
(* on its own connection.  sqlite3 opens a transaction before the INSERT   *)
(* OR REPLACE and the statement takes the database's write lock, which the *)
(* connection holds until conn.commit(); a connection that finds the lock  *)
(* taken waits, and raises "database is locked" when its timeout expires.  *)
(* inflight[c] holds a call's arguments, the status it computed, the row   *)
(* of its open transaction and its position:                               *)
(*   "called" -> "computed" -> "executed" -> "done", or "failed".          *)
(***************************************************************************)
Connections == {"a", "b"}

ContendedUser == "u1"

ContendedTopic == "physics_mechanics"

\* the connection that holds the write lock, if any
LockHolders == {c \in Connections : inflight[c].pc = "executed"}

\* an upsert that leaves the status column of a row it finds as it is
UpsertRowKeepingStatus(c) ==
  LET call == inflight[c]
      found == {r \in user_progress : r.user_id = ContendedUser /\ r.topic_id = ContendedTopic}
      row == ProgressRow(ContendedUser, ContendedTopic, call.snap.mastery_level,
                         call.snap.time_spent, call.snap.attempts,
                         call.snap.correct_answers, clock + 1)
  IN  IF found = {} THEN [row EXCEPT !.status = call.status]
      ELSE [row EXCEPT !.status = (CHOOSE r \in found : TRUE).status]

\* the row of the INSERT OR REPLACE: every column from this call's arguments and
\* from the status this call computed
UpsertRow(c) ==
  LET call == inflight[c]
  IN  [ProgressRow(ContendedUser, ContendedTopic, call.snap.mastery_level,
                   call.snap.time_spent, call.snap.attempts,
                   call.snap.correct_answers, clock + 1)
         EXCEPT !.status = call.status]

\* "Determine status based on mastery level"
ComputeStatus(c) ==
  /\ inflight[c].pc = "called"
  /\ inflight' = [inflight EXCEPT ![c].pc = "computed",
                                  ![c].status = StatusOf(inflight[c].snap.mastery_level,
                                                         inflight[c].snap.attempts)]
  /\ UNCHANGED <<users, catalog, user_progress, roadmaps, roadmap_items, clock, week,
                 uuids, ret, last_update,
                 mock_tests, mock_test_responses, questions>>

\* cursor.execute(INSERT OR REPLACE ...) with the write lock free
ExecuteUpsert(c) ==
  /\ inflight[c].pc = "computed"
  /\ LockHolders = {}
  /\ clock < MaxClock
  /\ clock' = clock + 1
  /\ inflight' = [inflight EXCEPT ![c].pc = "executed", ![c].row = UpsertRow(c)]
  /\ UNCHANGED <<users, catalog, user_progress, roadmaps, roadmap_items, week, uuids,
                 ret, last_update,
                 mock_tests, mock_test_responses, questions>>

\* cursor.execute(INSERT OR REPLACE ...) while the other connection keeps the write
\* lock for longer than the timeout: sqlite3.OperationalError, nothing is written
ExecuteLocked(c) ==
  /\ inflight[c].pc = "computed"
  /\ LockHolders # {}
  /\ inflight' = [inflight EXCEPT ![c].pc = "failed"]
  /\ ret' = [op |-> "update_progress", user_id |-> ContendedUser,
             topic_id |-> ContendedTopic, snap |-> inflight[c].snap,
             error |-> "database is locked"]
  /\ UNCHANGED <<users, catalog, user_progress, roadmaps, roadmap_items, clock, week,
                 uuids, last_update,
                 mock_tests, mock_test_responses, questions>>

\* conn.commit(): the transaction's row replaces the rows it conflicts with
CommitUpsert(c) ==
  /\ inflight[c].pc = "executed"
  /\ user_progress' = InsertOrReplace(user_progress, inflight[c].row)
  /\ inflight' = [inflight EXCEPT ![c].pc = "done"]
  /\ ret' = [op |-> "update_progress", user_id |-> ContendedUser,
             topic_id |-> ContendedTopic, snap |-> inflight[c].snap]
  /\ last_update' =
       {x \in last_update : ~(x.user_id = ContendedUser /\ x.topic_id = ContendedTopic)}
         \cup {[user_id |-> ContendedUser, topic_id |-> ContendedTopic,
                snap |-> inflight[c].snap]}
  /\ UNCHANGED <<users, catalog, roadmaps, roadmap_items, clock, week, uuids,
                 mock_tests, mock_test_responses, questions>>

\* both calls have been made; the record is absent or was written by an earlier call
InitConcurrent ==
  /\ \E exam_type \in ExamTypes : users = [u \in UserPool |-> ProfileOf(u, exam_type, 4)]
  /\ catalog = {SubjectsTable[i].id : i \in 1..Len(SubjectsTable)}
  /\ week = 51
  /\ clock = 0
  /\ \/ user_progress = {} /\ last_update = {}
     \/ \E snap \in Snapshots :
          /\ user_progress =
               {ProgressRow(ContendedUser, ContendedTopic, snap.mastery_level,
                            snap.time_spent, snap.attempts, snap.correct_answers, 0)}
          /\ last_update = {[user_id |-> ContendedUser, topic_id |-> ContendedTopic,
                             snap |-> snap]}
  /\ roadmaps = {}
  /\ roadmap_items = {}
  /\ uuids = 0
  /\ ret = [op |-> "init"]
  /\ mock_tests = {}
  /\ mock_test_responses = {}
  /\ questions = {}
  /\ \E snaps \in [Connections -> Snapshots] :
       inflight = [c \in Connections |->
                     [pc |-> "called", snap |-> snaps[c], status |-> "", row |-> [id |-> Null]]]

NextConcurrent ==
  \/ \E c \in Connections : ComputeStatus(c)
  \/ \E c \in Connections : ExecuteUpsert(c)
  \/ \E c \in Connections : ExecuteLocked(c)
  \/ \E c \in Connections : CommitUpsert(c)

SpecConcurrent == InitConcurrent /\ [][NextConcurrent]_vars

(***************************************************************************)
(* save_roadmap in steps, with the process able to stop between any two of *)
(* them.  The method opens one connection; sqlite3 begins a transaction    *)
(* before the first INSERT and nothing is committed until the single       *)
(* conn.commit() after the last item.  inflight.save holds the call's      *)
(* locals, the rows of its open transaction and its position:              *)
(*   "connected" -> "roadmap_inserted" -> "items_inserted" -> committed.   *)
(* A transaction that is open when the process stops is rolled back.       *)
(***************************************************************************)
Saving == "save" \in DOMAIN inflight

\* generate_weekly_roadmap up to save_roadmap's sqlite3.connect
BeginSave(user_id, week_offset) ==
  /\ ~Saving
  /\ HasProfile(user_id)
  /\ uuids < MaxRoadmaps
  /\ uuids' = uuids + 1
  /\ LET user_profile == get_user_profile(user_id)
     IN  \E roadmap_strategy \in {create_roadmap_strategy(user_profile,
                                    get_user_progress(user_id),
                                    get_subjects_for_exam(user_profile.exam_type))} :
         \E weekly_plan \in {generate_weekly_plan(roadmap_strategy, user_profile)} :
           inflight' =
             [save |->
                [pc |-> "connected", user_id |-> user_id, week_offset |-> week_offset,
                 roadmap_id |-> uuids + 1,
                 txn |-> [roadmaps |-> {}, roadmap_items |-> {}],
                 result |-> [roadmap_id |-> uuids + 1,
                             week_number |-> WeekNumber(week + week_offset),
                             year |-> YearOf(week + week_offset),
                             exam_type |-> user_profile.exam_type,
                             study_hours_per_day |-> user_profile.study_hours_per_day,
                             weekly_plan |-> weekly_plan, strategy |-> roadmap_strategy]]]
  /\ UNCHANGED <<users, catalog, user_progress, roadmaps, roadmap_items, clock, week, ret,
                 last_update,
                 mock_tests, mock_test_responses, questions>>

\* an INSERT INTO roadmaps that is committed as soon as it is executed
InsertRoadmapAutocommit ==
  /\ Saving
  /\ inflight.save.pc = "connected"
  /\ roadmaps' = roadmaps \cup
       {[id |-> inflight.save.roadmap_id, user_id |-> inflight.save.user_id,
         week_number |-> inflight.save.result.week_number,
         year |-> inflight.save.result.year, status |-> "active", updated_at |-> clock]}
  /\ inflight' = [inflight EXCEPT !.save.pc = "roadmap_inserted"]
  /\ UNCHANGED <<users, catalog, user_progress, roadmap_items, clock, week, uuids, ret,
                 last_update,
                 mock_tests, mock_test_responses, questions>>

\* "Insert roadmap": the row enters the open transaction
InsertRoadmap ==
  /\ Saving
  /\ inflight.save.pc = "connected"
  /\ inflight' =
       [inflight EXCEPT
          !.save.pc = "roadmap_inserted",
          !.save.txn.roadmaps =
             {[id |-> inflight.save.roadmap_id, user_id |-> inflight.save.user_id,
               week_number |-> inflight.save.result.week_number,
               year |-> inflight.save.result.year, status |-> "active",
               updated_at |-> clock]}]
  /\ UNCHANGED <<users, catalog, user_progress, roadmaps, roadmap_items, clock, week,
                 uuids, ret, last_update,
                 mock_tests, mock_test_responses, questions>>

\* "Insert roadmap items": the rows enter the open transaction
InsertItems ==
  /\ Saving
  /\ inflight.save.pc = "roadmap_inserted"
  /\ inflight' =
       [inflight EXCEPT
          !.save.pc = "items_inserted",
          !.save.txn.roadmap_items =
             PlanItems(inflight.save.roadmap_id, inflight.save.result.weekly_plan)]
  /\ UNCHANGED <<users, catalog, user_progress, roadmaps, roadmap_items, clock, week,
                 uuids, ret, last_update,
                 mock_tests, mock_test_responses, questions>>

\* conn.commit(), and generate_weekly_roadmap returns the roadmap
CommitSave ==
  /\ Saving
  /\ inflight.save.pc = "items_inserted"
  /\ roadmaps' = roadmaps \cup inflight.save.txn.roadmaps
  /\ roadmap_items' = roadmap_items \cup inflight.save.txn.roadmap_items
  /\ ret' = [op |-> "generate_roadmap", user_id |-> inflight.save.user_id,
             week_offset |-> inflight.save.week_offset, generated |-> TRUE,
             result |-> inflight.save.result]
  /\ inflight' = <<>>
  /\ UNCHANGED <<users, catalog, user_progress, clock, week, uuids, last_update,
                 mock_tests, mock_test_responses, questions>>

\* the process stops during save_roadmap: the open transaction is rolled back
CrashDuringSave ==
  /\ Saving
  /\ ret' = [op |-> "crash", at |-> inflight.save.pc, user_id |-> inflight.save.user_id,
             week_offset |-> inflight.save.week_offset,
             roadmap_id |-> inflight.save.roadmap_id]
  /\ inflight' = <<>>
  /\ UNCHANGED <<users, catalog, user_progress, roadmaps, roadmap_items, clock, week,
                 uuids, last_update,
                 mock_tests, mock_test_responses, questions>>

\* one user with a profile and some progress, no roadmap yet
InitSave ==
  /\ \E exam_type \in ExamTypes : users = [u \in UserPool |-> ProfileOf(u, exam_type, 4)]
  /\ catalog = {SubjectsTable[i].id : i \in 1..Len(SubjectsTable)}
  /\ week \in AnalyticsWeeks
  /\ \E studied \in SUBSET (1..Len(AnalyticsTopics)) :
       /\ clock = Cardinality(studied)
       /\ \E level \in [studied -> AnalyticsLevels] :
            /\ user_progress = StoredProgress("u1", AnalyticsTopics, studied, level)
            /\ last_update = StoredHistory("u1", AnalyticsTopics, studied, level)
  /\ roadmaps = {}
  /\ roadmap_items = {}
  /\ uuids = 0
  /\ ret = [op |-> "init"]
  /\ mock_tests = {}
  /\ mock_test_responses = {}
  /\ questions = {}
  /\ inflight = <<>>

NextSave ==
  \/ \E user_id \in UserPool, week_offset \in WeekOffsets : BeginSave(user_id, week_offset)
  \/ InsertRoadmap
  \/ InsertItems
  \/ CommitSave
  \/ CrashDuringSave

SpecSave == InitSave /\ [][NextSave]_vars

(***************************************************************************)
(* generate_weekly_roadmap in steps, with update_progress calls of other   *)
(* requests in between.  The generator reads the user's progress once for  *)
(* the strategy and again, on a new connection each time, in every         *)
(* select_topics_for_day call of the six regular days; no transaction      *)
(* spans the reads.  inflight.gen holds the call's locals: the strategy,   *)
(* the days planned so far, the next day to plan, and the progress states  *)
(* the store has been in since the call began.                             *)
(***************************************************************************)
Generating == "gen" \in DOMAIN inflight

\* the topics the interleaved updates are for
InterleavedTopics == {"physics_electricity_and_magnetism", "chemistry_organic_reactions"}

\* generate_weekly_roadmap up to create_roadmap_strategy
BeginGenerate(user_id, week_offset) ==
  /\ DOMAIN inflight = {}
  /\ HasProfile(user_id)
  /\ uuids < MaxRoadmaps
  /\ \E progress \in {get_user_progress(user_id)} :
       inflight' =
         [gen |-> [day |-> 1, user_id |-> user_id, week_offset |-> week_offset,
                   strategy |-> create_roadmap_strategy(get_user_profile(user_id), progress,
                                  get_subjects_for_exam(get_user_profile(user_id).exam_type)),
                   days |-> <<>>, seen |-> {progress}]]
  /\ UNCHANGED <<users, catalog, user_progress, roadmaps, roadmap_items, clock, week, uuids,
                 ret, last_update,
                 mock_tests, mock_test_responses, questions>>

\* one iteration of generate_weekly_plan's loop for a regular day
PlanNextDay ==
  /\ Generating
  /\ inflight.gen.day <= 6
  /\ LET user_profile == get_user_profile(inflight.gen.user_id)
     IN  \E day_plan \in {RegularDayPlan(inflight.gen.day, inflight.gen.strategy,
                                         user_profile.user_id,
                                         user_profile.study_hours_per_day,
                                         AllTopics(user_profile.exam_type))} :
           inflight' = [inflight EXCEPT !.gen.day = @ + 1,
                                        !.gen.days = Append(@, day_plan)]
  /\ UNCHANGED <<users, catalog, user_progress, roadmaps, roadmap_items, clock, week, uuids,
                 ret, last_update,
                 mock_tests, mock_test_responses, questions>>

\* Sunday, save_roadmap and the return
FinishGenerate ==
  /\ Generating
  /\ inflight.gen.day = 7
  /\ uuids' = uuids + 1
  /\ LET user_profile == get_user_profile(inflight.gen.user_id)
         week_number == WeekNumber(week + inflight.gen.week_offset)
         year == YearOf(week + inflight.gen.week_offset)
     IN  \E weekly_plan \in {[day \in 1..7 |->
                                IF day = 7 THEN SundayPlan(user_profile.study_hours_per_day)
                                ELSE inflight.gen.days[day]]} :
           /\ roadmaps' = roadmaps \cup
                {[id |-> uuids + 1, user_id |-> inflight.gen.user_id,
                  week_number |-> week_number, year |-> year, status |-> "active",
                  updated_at |-> clock]}
           /\ roadmap_items' = roadmap_items \cup PlanItems(uuids + 1, weekly_plan)
           /\ ret' = [op |-> "generate_roadmap", user_id |-> inflight.gen.user_id,
                      week_offset |-> inflight.gen.week_offset, generated |-> TRUE,
                      seen |-> inflight.gen.seen,
                      result |-> [roadmap_id |-> uuids + 1, week_number |-> week_number,
                                  year |-> year, exam_type |-> user_profile.exam_type,
                                  study_hours_per_day |-> user_profile.study_hours_per_day,
                                  weekly_plan |-> weekly_plan,
                                  strategy |-> inflight.gen.strategy]]
  /\ inflight' = <<>>
  /\ UNCHANGED <<users, catalog, user_progress, clock, week, last_update,
                 mock_tests, mock_test_responses, questions>>

\* an update_progress call of another request, before or during a generation
InterleavedUpdate(user_id, topic_id, snap) ==
  /\ clock < MaxClock
  /\ clock' = clock + 1
  /\ user_progress' =
       InsertOrReplace(user_progress,
         ProgressRow(user_id, topic_id, snap.mastery_level, snap.time_spent,
                     snap.attempts, snap.correct_answers, clock + 1))
  /\ ret' = [op |-> "update_progress", user_id |-> user_id, topic_id |-> topic_id,
             snap |-> snap]
  /\ last_update' =
       {c \in last_update : ~(c.user_id = user_id /\ c.topic_id = topic_id)}
         \cup {[user_id |-> user_id, topic_id |-> topic_id, snap |-> snap]}
  /\ UNCHANGED <<users, catalog, roadmaps, roadmap_items, week, uuids,
                 mock_tests, mock_test_responses, questions>>
  /\ inflight' = IF Generating
                 THEN [inflight EXCEPT !.gen.seen = @ \cup {get_user_progress(user_id)'}]
                 ELSE inflight

\* one user with a profile, the seeded catalog, no progress and no roadmap
InitInterleaved ==
  /\ \E exam_type \in ExamTypes : users = [u \in UserPool |-> ProfileOf(u, exam_type, 4)]
  /\ catalog = {SubjectsTable[i].id : i \in 1..Len(SubjectsTable)}
  /\ week = 51
  /\ clock = 0
  /\ user_progress = {}
  /\ last_update = {}
  /\ roadmaps = {}
  /\ roadmap_items = {}
  /\ uuids = 0
  /\ ret = [op |-> "init"]
  /\ mock_tests = {}
  /\ mock_test_responses = {}
  /\ questions = {}
  /\ inflight = <<>>

NextInterleaved ==
  \/ \E user_id \in UserPool, week_offset \in WeekOffsets : BeginGenerate(user_id, week_offset)
  \/ PlanNextDay
  \/ FinishGenerate
  \/ \E user_id \in UserPool, topic_id \in InterleavedTopics, snap \in Snapshots :
       InterleavedUpdate(user_id, topic_id, snap)

SpecInterleaved == InitInterleaved /\ [][NextInterleaved]_vars

(***************************************************************************)
(* MockTestSystem (src/mock_test_system.py): schedule_mock_test,           *)
(* start_mock_test and generate_mock_test_questions.  A question row keeps *)
(* its id, its topic and the difficulty list its difficulty_level was      *)
(* drawn from by random.choice; a response row keeps its id, its test and  *)
(* its question.  The uuid4 ids are the tuples that tell the rows apart.   *)
(***************************************************************************)
\* exam_configs: exam type -> subject name -> number of questions
ExamConfigs ==
  [JEE_MAIN |-> [Physics |-> 25, Chemistry |-> 25, Mathematics |-> 25],
   JEE_ADVANCED |-> [Physics |-> 18, Chemistry |-> 18, Mathematics |-> 18],
   NEET |-> [Physics |-> 45, Chemistry |-> 45, Biology |-> 90]]

\* exam_type.split('_')[0] for the keys of exam_configs
ExamFamily(exam_type) ==
  IF exam_type \in {"JEE_MAIN", "JEE_ADVANCED"} THEN "JEE" ELSE exam_type

\* difficulty_preference from the mean mastery of the user's progress
DifficultyPreference(progress) ==
  IF progress = {} THEN {1, 2, 3}
  ELSE IF MeanLT(Mean(progress), 30) THEN {1, 2, 3}
  ELSE IF MeanLT(Mean(progress), 70) THEN {2, 3, 4}
  ELSE {3, 4, 5}

\* the id of the exam's subject of that name, or none
SubjectIdOf(exam_type, subject_name) ==
  LET subjects == get_subjects_for_exam(ExamFamily(exam_type))
      found == {i \in 1..Len(subjects) : subjects[i].name = subject_name}
  IN  IF found = {} THEN Null ELSE subjects[CHOOSE i \in found : TRUE].id

\* get_questions_for_subject: the questions of the subject's topics whose
\* difficulty_level is in the list; a level drawn from the same list is in it
get_questions_for_subject(subject_id, difficulty_preference) ==
  {q \in questions :
     /\ \E t \in get_topics_for_subject(subject_id) : t.id = q.topic_id
     /\ q.drawn_from = difficulty_preference}

\* the i-th of the subject's topics in chapter_number order
TopicAt(subject_topics, i) ==
  CHOOSE t \in subject_topics :
    Cardinality({u \in subject_topics : u.chapter_number < t.chapter_number}) = i - 1

\* generate_questions_for_subject: questions_per_topic for each topic in turn,
\* until num_questions have been generated; every question is saved
generate_questions_for_subject(subject_id, num_questions, difficulty_preference) ==
  LET subject_topics == get_topics_for_subject(subject_id)
      questions_per_topic == Max(1, num_questions \div Cardinality(subject_topics))
      stored == Cardinality({q \in questions :
                               \E t \in subject_topics : t.id = q.topic_id})
  IN  IF subject_topics = {} THEN {}
      ELSE {[id |-> <<subject_id, stored + k>>,
             topic_id |-> TopicAt(subject_topics, ((k - 1) \div questions_per_topic) + 1).id,
             drawn_from |-> difficulty_preference] :
              k \in 1..Min(num_questions, questions_per_topic * Cardinality(subject_topics))}

\* the question pool of one subject of the test: the existing questions, and
\* generated ones when they are fewer than the subject's number
SubjectPool(subject_id, num_questions, difficulty_preference) ==
  LET existing_questions == get_questions_for_subject(subject_id, difficulty_preference)
  IN  IF Cardinality(existing_questions) < num_questions
      THEN existing_questions \cup
             generate_questions_for_subject(subject_id,
               num_questions - Cardinality(existing_questions), difficulty_preference)
      ELSE existing_questions

\* random.sample(existing_questions, min(num_questions, len(existing_questions)))
SampleChoices(pool, num_questions) ==
  IF Cardinality(pool) <= num_questions THEN {pool}
  ELSE {chosen \in SUBSET pool : Cardinality(chosen) = num_questions}

\* the response rows of a test
ResponsesOf(mock_test_id) == {r \in mock_test_responses : r.mock_test_id = mock_test_id}

\* start_mock_test calls that have written response rows
Starts == Cardinality({<<r.id[1], r.id[2]>> : r \in mock_test_responses})

\* schedule_mock_test: a ValueError for an exam type without configuration
ScheduleMockTest(user_id, exam_type) ==
  /\ Cardinality(mock_tests) < MaxTests
  /\ IF exam_type \in DOMAIN ExamConfigs
     THEN /\ mock_tests' = mock_tests \cup
               {[id |-> Cardinality(mock_tests) + 1, user_id |-> user_id,
                 exam_type |-> exam_type, status |-> "scheduled"]}
          /\ ret' = [op |-> "schedule_mock_test", user_id |-> user_id,
                     result |-> [mock_test_id |-> Cardinality(mock_tests) + 1]]
     ELSE /\ mock_tests' = mock_tests
          /\ ret' = [op |-> "schedule_mock_test", user_id |-> user_id,
                     result |-> [error |-> "Invalid exam type"]]
  /\ UNCHANGED <<users, catalog, user_progress, roadmaps, roadmap_items, clock, week, uuids,
                 last_update, inflight, mock_test_responses, questions>>

\* start_mock_test: the status update, then generate_mock_test_questions, which
\* returns [] for an unknown test and else saves the generated questions and
\* inserts a response row for every selected question
StartMockTest(mock_test_id) ==
  /\ Starts < MaxStarts
  /\ mock_tests' = {IF t.id = mock_test_id THEN [t EXCEPT !.status = "in_progress"] ELSE t :
                      t \in mock_tests}
  /\ IF \A t \in mock_tests : t.id # mock_test_id
     THEN /\ ret' = [op |-> "start_mock_test", mock_test_id |-> mock_test_id,
                     questions |-> {}, total_questions |-> 0]
          /\ UNCHANGED <<mock_test_responses, questions>>
     ELSE LET mock_test == CHOOSE t \in mock_tests : t.id = mock_test_id
              config == ExamConfigs[mock_test.exam_type]
              known == {n \in DOMAIN config : SubjectIdOf(mock_test.exam_type, n) # Null}
              call == Cardinality({r.id[2] : r \in ResponsesOf(mock_test_id)}) + 1
          IN  \E difficulty_preference \in
                   {DifficultyPreference(get_user_progress(mock_test.user_id))} :
              \E pool \in {[n \in known |->
                              SubjectPool(SubjectIdOf(mock_test.exam_type, n), config[n],
                                          difficulty_preference)]} :
              \E selected \in {f \in [known -> UNION {SampleChoices(pool[n], config[n]) :
                                                        n \in known}] :
                                 \A n \in known : f[n] \in SampleChoices(pool[n], config[n])} :
              \E all_questions \in {UNION {selected[n] : n \in known}} :
                /\ questions' = questions \cup UNION {pool[n] : n \in known}
                /\ mock_test_responses' = mock_test_responses \cup
                     {[id |-> <<mock_test_id, call, q.id>>, mock_test_id |-> mock_test_id,
                       question_id |-> q.id] : q \in all_questions}
                /\ ret' = [op |-> "start_mock_test", mock_test_id |-> mock_test_id,
                           questions |-> {q.id : q \in all_questions},
                           total_questions |-> Cardinality(all_questions)]
  /\ UNCHANGED <<users, catalog, user_progress, roadmaps, roadmap_items, clock, week, uuids,
                 last_update, inflight>>

\* levels of the progress row of the user who takes the tests
MockLevels == {20, 50, 85}

\* test ids a caller passes: the scheduled ones and one that does not exist
CallerTests == 0..MaxTests

\* one user with or without a progress row, no question and no test yet
InitMock ==
  /\ \E exam_type \in {"JEE", "NEET"} :
       users = [u \in UserPool |-> ProfileOf(u, exam_type, 4)]
  /\ catalog = {SubjectsTable[i].id : i \in 1..Len(SubjectsTable)}
  /\ week = 51
  /\ \E studied \in SUBSET (1..Len(AnalyticsTopics)) :
       /\ clock = Cardinality(studied)
       /\ \E level \in [studied -> MockLevels] :
            /\ user_progress = StoredProgress("u1", AnalyticsTopics, studied, level)
            /\ last_update = StoredHistory("u1", AnalyticsTopics, studied, level)
  /\ roadmaps = {}
  /\ roadmap_items = {}
  /\ uuids = 0
  /\ ret = [op |-> "init"]
  /\ inflight = <<>>
  /\ mock_tests = {}
  /\ mock_test_responses = {}
  /\ questions = {}

\* the tests of one behaviour are of one exam type
NextMock ==
  \/ \E user_id \in UserPool,
        exam_type \in {e \in DOMAIN ExamConfigs \cup {"OTHER"} :
                         \A t \in mock_tests : t.exam_type = e} :
       ScheduleMockTest(user_id, exam_type)
  \/ \E mock_test_id \in CallerTests : StartMockTest(mock_test_id)

SpecMock == InitMock /\ [][NextMock]_vars

(***************************************************************************)
(* Properties.                                                             *)
(***************************************************************************)
\* the status rule as section 4.2 of the specification words it, in hundredths
StatusRule(mastery_level, attempts) ==
  IF mastery_level >= 80 THEN "completed"
  ELSE IF mastery_level >= 40 THEN "in_progress"
  ELSE IF attempts > 3 THEN "struggling"
  ELSE "in_progress"

\* the rows stored for a (user, topic) pair
RowsOf(user_id, topic_id) ==
  {r \in user_progress : r.user_id = user_id /\ r.topic_id = topic_id}

\* a mean equal to c / 100
MeanEQ(m, c) == m.num = c * m.den

\* the sum of an allocation's percentages
Total(allocation) == SumValues(allocation, DOMAIN allocation)

\* the last call generated a roadmap
Generated == ret.op \in {"generate_roadmap", "get_roadmap"} /\ ret.generated

\* the last call computed a strategy
Strategized == ret.op = "create_roadmap_strategy"

RECURSIVE SumDurations(_)
\* the sum of the durations of a day's activities
SumDurations(activities) ==
  IF activities = <<>> THEN 0
  ELSE activities[1].duration + SumDurations(Tail(activities))

\* C1: after every update_progress call the record stored for the call's user and
\* topic has the status of the rule: completed from 0.8, in_progress from 0.4 to
\* 0.8, struggling below 0.4 with more than 3 attempts, in_progress otherwise; so
\* mastery 0.35 with 5 attempts is stored as struggling.
C1_StatusRule ==
  ret.op = "update_progress" =>
    \A r \in RowsOf(ret.user_id, ret.topic_id) :
      r.status = StatusRule(ret.snap.mastery_level, ret.snap.attempts)

\* C2: for the JEE and NEET tracks and every combination of subject means, the
\* subject_allocation create_roadmap_strategy returns sums to exactly 100.
C2_AllocationSumsTo100 ==
  (Strategized /\ ret.exam_type \in {"JEE", "NEET"}) =>
    Total(ret.strategy.subject_allocation) = 100

\* C3: the store holds at most one roadmap per (user, week_number, year), whatever
\* calls of the POST endpoint and of get-or-generate came before.
C3_OneRoadmapPerWeek ==
  \A r1, r2 \in roadmaps :
    (r1.user_id = r2.user_id /\ r1.week_number = r2.week_number /\ r1.year = r2.year)
      => r1 = r2

\* C4: every (user, topic) pair that update_progress was ever called for has
\* exactly one progress record, and the record's mastery_level, time_spent,
\* attempts and correct_answers are the arguments of the latest call for the pair.
C4_LatestCallStored ==
  \A c \in last_update :
    /\ Cardinality(RowsOf(c.user_id, c.topic_id)) = 1
    /\ \A r \in RowsOf(c.user_id, c.topic_id) :
         /\ r.mastery_level = c.snap.mastery_level
         /\ r.time_spent = c.snap.time_spent
         /\ r.attempts = c.snap.attempts
         /\ r.correct_answers = c.snap.correct_answers

\* C5: in every state each stored progress record's status is what the status
\* rule yields for the record's own mastery_level and attempts.
C5_StatusIsFunctionOfRecord ==
  \A r \in user_progress : r.status = StatusRule(r.mastery_level, r.attempts)

\* C6: before normalization each subject's percentage is min(50, base + 10) for a
\* mean below 0.3, max(20, base - 5) for a mean above 0.7 and the base otherwise;
\* a 33-base subject of mean 0.2 gets 43, one of mean 0.75 gets 28, and when both
\* occur the normalized allocation sums to 100 whatever the third subject's mean.
C6_AdjustThenNormalize ==
  Strategized =>
    LET base == BaseAllocation(ret.exam_type)
        mean == ret.strategy.subject_performance
        adjusted == ret.adjusted_allocation
        graded == DOMAIN mean \cap DOMAIN adjusted
    IN  /\ \A s \in graded :
             adjusted[s] = IF MeanLT(mean[s], 30) THEN Min(50, base[s] + 10)
                           ELSE IF MeanGT(mean[s], 70) THEN Max(20, base[s] - 5)
                           ELSE base[s]
        /\ \A s \in graded : (base[s] = 33 /\ MeanEQ(mean[s], 20)) => adjusted[s] = 43
        /\ \A s \in graded : (base[s] = 33 /\ MeanEQ(mean[s], 75)) => adjusted[s] = 28
        /\ (\E a, b \in graded : /\ base[a] = 33 /\ MeanEQ(mean[a], 20)
                                /\ base[b] = 33 /\ MeanEQ(mean[b], 75))
             => Total(ret.strategy.subject_allocation) = 100

\* C7: for a JEE user without progress records generate_weekly_roadmap returns
\* the subject_allocation Physics 33, Chemistry 33, Mathematics 34 and the phase
\* foundation.
C7_NewJeeUser ==
  (Generated /\ ret.result.exam_type = "JEE"
     /\ {r \in user_progress : r.user_id = ret.user_id} = {}) =>
    /\ DOMAIN ret.result.strategy.subject_allocation = {"Physics", "Chemistry", "Mathematics"}
    /\ ret.result.strategy.subject_allocation["Physics"] = 33
    /\ ret.result.strategy.subject_allocation["Chemistry"] = 33
    /\ ret.result.strategy.subject_allocation["Mathematics"] = 34
    /\ ret.result.strategy.phase = "foundation"

\* a roadmap was generated for a JEE user without progress, with Mathematics at 34
C7_Witness ==
  /\ Generated
  /\ ret.result.exam_type = "JEE"
  /\ {r \in user_progress : r.user_id = ret.user_id} = {}
  /\ ret.result.strategy.phase = "foundation"
  /\ ret.result.strategy.subject_allocation["Mathematics"] = 34

\* the normalized percentage of subject s once its mean is lowered to 0.2, the
\* means of the other subjects staying as they are
LoweredShare(s) ==
  NormalizeAllocation(
    AdjustedAllocation(ret.exam_type,
      [ret.strategy.subject_performance EXCEPT ![s] = [num |-> 20, den |-> 1]]))[s]

\* C8: for every exam track, every subject whose mean mastery is 0.5 and every
\* mastery of the other subjects, the subject's normalized percentage with its
\* mean lowered to 0.2 is not below its percentage at 0.5.
C8_WeakerNeverLess ==
  Strategized =>
    \A s \in DOMAIN ret.strategy.subject_performance \cap DOMAIN ret.strategy.subject_allocation :
      MeanEQ(ret.strategy.subject_performance[s], 50)
        => LoweredShare(s) >= ret.strategy.subject_allocation[s]

\* a strategy in which a subject of mean 0.5 would gain by falling to 0.2 while
\* another subject is strong
C8_Witness ==
  /\ Strategized
  /\ \E s, o \in DOMAIN ret.strategy.subject_performance \cap DOMAIN ret.strategy.subject_allocation :
       /\ MeanEQ(ret.strategy.subject_performance[s], 50)
       /\ MeanGT(ret.strategy.subject_performance[o], 70)
       /\ LoweredShare(s) > ret.strategy.subject_allocation[s]

\* C9: day 7 of every generated weekly plan has exactly two activities, a revision
\* and a mock_test, no concept_study, and both last the same number of hours: the
\* whole-hour half of study_hours_per_day.
C9_SundayRevisionAndMock ==
  Generated =>
    LET activities == ret.result.weekly_plan[7].activities
    IN  /\ Len(activities) = 2
        /\ {activities[k].type : k \in 1..2} = {"revision", "mock_test"}
        /\ \A k \in 1..Len(activities) : activities[k].type # "concept_study"
        /\ activities[1].duration = activities[2].duration
        /\ \A k \in 1..2 : activities[k].duration = ret.result.study_hours_per_day \div 2

\* a roadmap generated for an odd daily budget, whose Sunday holds the two blocks
C9_Witness ==
  /\ Generated
  /\ ret.result.study_hours_per_day % 2 = 1
  /\ Len(ret.result.weekly_plan[7].activities) = 2
  /\ ret.result.weekly_plan[7].activities[2].type = "mock_test"
  /\ ret.result.weekly_plan[7].activities[2].duration > 0

\* C10: for every study_hours_per_day >= 0 and every day 1..7 of a generated
\* weekly plan, the durations of the day's activities sum to at most
\* study_hours_per_day + 1, also on days that omit a subject without topics.
C10_DayWithinBudget ==
  Generated =>
    \A day \in 1..7 :
      SumDurations(ret.result.weekly_plan[day].activities)
        <= ret.result.study_hours_per_day + 1

\* a generated plan with a day that omits an activity and a day that has all three
C10_Witness ==
  /\ Generated
  /\ ret.result.study_hours_per_day = MaxHours
  /\ \E day \in 1..6 : Len(ret.result.weekly_plan[day].activities) < 3
  /\ \E day \in 1..6 :
       /\ Len(ret.result.weekly_plan[day].activities) = 3
       /\ SumDurations(ret.result.weekly_plan[day].activities) = MaxHours

\* the items stored for the roadmap the last call generated
GeneratedItems == {ri \in roadmap_items : ri.roadmap_id = ret.result.roadmap_id}

\* the places <<day, k>> of the generated plan's activities that carry a topic_id
TopicActivities ==
  {x \in (1..7) \X (1..3) :
     /\ x[2] <= Len(ret.result.weekly_plan[x[1]].activities)
     /\ ret.result.weekly_plan[x[1]].activities[x[2]].topic_id # NoTopic}

\* item ri is the row of the activity at place x of the generated plan
ItemOfActivity(ri, x) ==
  LET activity == ret.result.weekly_plan[x[1]].activities[x[2]]
  IN  /\ ri.topic_id = activity.topic_id
      /\ ri.day_of_week = x[1]
      /\ ri.study_hours = activity.duration
      /\ ri.priority = (IF activity.type = "concept_study" THEN 1 ELSE 2)
      /\ activity.type \in {"concept_study", "practice"}

\* C11: generate_weekly_roadmap stores exactly one item per plan activity that
\* carries a topic_id and none for the others: every item has day_of_week in 1..6,
\* priority 1 (primary) or 2 (secondary), study_hours equal to its activity's
\* duration and status pending; day 7 and the mixed revision give no item.
C11_OneItemPerTopicActivity ==
  Generated =>
    /\ Cardinality(GeneratedItems) = Cardinality(TopicActivities)
    /\ \A x \in TopicActivities : \E ri \in GeneratedItems : ItemOfActivity(ri, x)
    /\ \A ri \in GeneratedItems :
         /\ ri.day_of_week \in 1..6
         /\ ri.priority \in {1, 2}
         /\ ri.status = "pending"
         /\ \E x \in TopicActivities : ItemOfActivity(ri, x)

\* a roadmap generated with both subjects' topics on every regular day: 12 items
C11_Witness ==
  /\ Generated
  /\ Cardinality(GeneratedItems) = 12
  /\ \A day \in 1..6 : Len(ret.result.weekly_plan[day].activities) = 3
  /\ \E ri \in GeneratedItems : ri.priority = 2 /\ ri.study_hours > 0

\* C12: after any generate_weekly_roadmap and update_roadmap_progress calls, with
\* whatever status arguments, every roadmap item's status is pending, completed
\* or skipped.
C12_ItemStatusInDomain ==
  \A ri \in roadmap_items : ri.status \in {"pending", "completed", "skipped"}

\* the keys (year, week_number) of the user's roadmaps that have items and were
\* generated for one of the two weeks before now or for the week of now
WindowWeeks(user_id) ==
  {<<r.year, r.week_number>> :
     r \in {x \in roadmaps :
              /\ x.user_id = user_id
              /\ (x.year - 2025) * 52 + x.week_number - 1 \in (week - 2)..week
              /\ \E ri \in roadmap_items : ri.roadmap_id = x.id}}

\* the types of the directives the last adaptation returned
Directives == {a.type : a \in ret.result.adaptations}

\* C13: whenever the mean of the completion rates (completed items / all items of
\* a week) of the weeks of the 2-week window is below 50%, the adaptation returns
\* reduce_workload and no increase_difficulty; and no result holds both.
C13_LowCompletionReducesWorkload ==
  ret.op = "adapt_roadmap" =>
    /\ (/\ WindowWeeks(ret.user_id) # {}
        /\ MeanLT(MeanRate(ret.user_id, WindowWeeks(ret.user_id)), 50))
         => ("reduce_workload" \in Directives /\ "increase_difficulty" \notin Directives)
    /\ ~("reduce_workload" \in Directives /\ "increase_difficulty" \in Directives)

\* C14: a step of get_roadmap_analytics or adapt_roadmap_based_on_performance
\* leaves every profile (study_hours_per_day included), all progress records, all
\* roadmaps and all roadmap items as they were, whatever directives it returns.
C14_AnalyticsReadOnly ==
  [][ret'.op \in {"get_roadmap_analytics", "adapt_roadmap"}
       => UNCHANGED <<users, user_progress, roadmaps, roadmap_items>>]_vars

\* an adaptation returned reduce_workload for a user with roadmaps, whose profile
\* still has the daily hours it was created with
C14_Witness ==
  /\ ret.op = "adapt_roadmap"
  /\ ret.user_id \in DOMAIN users
  /\ "reduce_workload" \in Directives
  /\ users[ret.user_id].study_hours_per_day = 4
  /\ \E r \in roadmaps : r.user_id = ret.user_id

\* what a caller compares of get_roadmap(user_id, week_offset): whether a roadmap
\* was found, its id, and its items without the field that carries ri.status
ReadView(user_id, week_offset) ==
  IF RoadmapsFor(user_id, WeekNumber(week + week_offset), YearOf(week + week_offset)) = {}
  THEN [found |-> FALSE]
  ELSE With(get_roadmap(user_id, week + week_offset), LAMBDA roadmap :
         [found |-> TRUE, id |-> roadmap.id,
          items |-> {[id |-> x.id, topic_id |-> x.topic_id, day_of_week |-> x.day_of_week,
                      study_hours |-> x.study_hours, priority |-> x.priority,
                      status |-> x.status, subject_name |-> x.subject_name] :
                       x \in roadmap.items}])

\* C15: a get_roadmap that finds a roadmap changes no stored state and returns
\* what the store holds for (user, week_offset); and no step other than a
\* generate_weekly_roadmap changes, for any (user, week_offset), the roadmap id or
\* the set of items get_roadmap returns (an item's status may be updated in
\* between): two reads with no generation in between return the same id and the
\* same items.
C15_GetRoadmapRepeatable ==
  [][/\ (ret'.op = "get_roadmap" /\ ~ret'.generated)
          => /\ UNCHANGED <<users, catalog, user_progress, roadmaps, roadmap_items>>
             /\ ReadView(ret'.user_id, ret'.week_offset).found
                  => ret'.result = get_roadmap(ret'.user_id, week + ret'.week_offset)
     /\ ~(ret'.op \in {"generate_roadmap", "get_roadmap"} /\ ret'.generated)
          => \A user_id \in CallerUsers, week_offset \in WeekOffsets :
               ReadView(user_id, week_offset)' = ReadView(user_id, week_offset)]_vars

\* a read that returned a stored roadmap after one of its items had been updated
C15_Witness ==
  /\ ret.op = "get_roadmap"
  /\ ~ret.generated
  /\ "items" \in DOMAIN ret.result
  /\ ret.result.items # {}
  /\ \E ri \in roadmap_items : ri.roadmap_id = ret.result.id /\ ri.status = "completed"

\* C16: generate_weekly_roadmap for a profile whose exam track is neither JEE nor
\* NEET fails with an error, and no roadmap is persisted for that user.
C16_UnrecognizedTrackFails ==
  (/\ ret.op = "generate_roadmap"
   /\ HasProfile(ret.user_id)
   /\ get_user_profile(ret.user_id).exam_type \notin {"JEE", "NEET"})
    => /\ "error" \in DOMAIN ret.result
       /\ \A r \in roadmaps : r.user_id # ret.user_id

\* C17: generate_weekly_roadmap for a user id with no profile returns the error
\* result 'User not found' and leaves the store unchanged: no roadmap and no
\* roadmap item is created.
C17_UnknownUserNotFound ==
  [][(ret'.op = "generate_roadmap" /\ ~HasProfile(ret'.user_id))
       => /\ ret'.result = [error |-> "User not found"]
          /\ UNCHANGED <<users, catalog, user_progress, roadmaps, roadmap_items>>]_vars

\* a generation was refused for a user without profile while roadmaps were stored
C17_Witness ==
  /\ ret.op = "generate_roadmap"
  /\ ~HasProfile(ret.user_id)
  /\ "error" \in DOMAIN ret.result
  /\ roadmaps # {}
  /\ roadmap_items # {}

\* C18: update_roadmap_progress called with an item id that matches no roadmap
\* item surfaces a failure to the caller instead of reporting success.
C18_UnknownItemFails ==
  (/\ ret.op = "update_roadmap_item"
   /\ \A ri \in roadmap_items : ri.id # ret.item_id)
    => /\ "error" \in DOMAIN ret.result
       /\ "message" \notin DOMAIN ret.result

\* the contended record holds every field of connection c's call
HoldsSnapshotOf(r, c) ==
  /\ r.mastery_level = inflight[c].snap.mastery_level
  /\ r.time_spent = inflight[c].snap.time_spent
  /\ r.attempts = inflight[c].snap.attempts
  /\ r.correct_answers = inflight[c].snap.correct_answers
  /\ r.status = StatusOf(inflight[c].snap.mastery_level, inflight[c].snap.attempts)

ContendedRecords ==
  {r \in user_progress : r.user_id = ContendedUser /\ r.topic_id = ContendedTopic}

\* C19: when two update_progress calls for the same (user, topic) run at once,
\* then from the first commit on there is one record for (user, topic) and it
\* holds the complete snapshot of one call that committed (mastery_level,
\* time_spent, attempts, correct_answers and the status derived from that call),
\* never fields of both; and when both calls have ended, one of them committed.
C19_ConcurrentWritesAtomic ==
  /\ (\E c \in Connections : inflight[c].pc = "done")
       => /\ Cardinality(ContendedRecords) = 1
          /\ \A r \in ContendedRecords :
               \E c \in Connections : inflight[c].pc = "done" /\ HoldsSnapshotOf(r, c)
  /\ (\A c \in Connections : inflight[c].pc \in {"done", "failed"})
       => \E c \in Connections : inflight[c].pc = "done"

\* both calls committed, one after the other, with snapshots of different status
C19_Witness ==
  /\ \A c \in Connections : inflight[c].pc = "done"
  /\ inflight["a"].status # inflight["b"].status
  /\ inflight["a"].snap # inflight["b"].snap
  /\ ContendedRecords # {}

\* C20, as stated: a crash of generate_weekly_roadmap between the insertion of
\* the roadmap row and the insertion of its item rows leaves the roadmap row
\* committed, with no item, where get_roadmap finds it.
C20_CrashLeavesRoadmapWithoutItems ==
  (ret.op = "crash" /\ ret.at = "roadmap_inserted")
    => /\ \E r \in RoadmapsFor(ret.user_id, WeekNumber(week + ret.week_offset),
                              YearOf(week + ret.week_offset)) : r.id = ret.roadmap_id
       /\ \A ri \in roadmap_items : ri.roadmap_id # ret.roadmap_id

\* C20, amended: roadmap persistence is atomic across its two writes.  While
\* save_roadmap runs and after a crash at any point of it, neither its roadmap
\* row nor any of its item rows is stored, so get_roadmap does not find the
\* roadmap; after its commit the roadmap row is stored with an item row for
\* every topic-bearing activity of the plan.
C20_SaveIsAtomic ==
  /\ Saving
       => /\ \A r \in roadmaps : r.id # inflight.save.roadmap_id
          /\ \A ri \in roadmap_items : ri.roadmap_id # inflight.save.roadmap_id
  /\ ret.op = "crash"
       => /\ \A r \in roadmaps : r.id # ret.roadmap_id
          /\ \A ri \in roadmap_items : ri.roadmap_id # ret.roadmap_id
  /\ ret.op = "generate_roadmap"
       => /\ \E r \in roadmaps : r.id = ret.result.roadmap_id
          /\ {ri \in roadmap_items : ri.roadmap_id = ret.result.roadmap_id}
               = PlanItems(ret.result.roadmap_id, ret.result.weekly_plan)

\* the process stopped between the two writes, after an earlier roadmap was saved
C20_Witness ==
  /\ ret.op = "crash"
  /\ ret.at = "roadmap_inserted"
  /\ roadmaps # {}
  /\ roadmap_items # {}

\* C21: update_progress(u, t, ...) changes no progress record other than the one
\* for (u, t): the records of every other user and of every other topic are
\* left as they were.
C21_OtherRecordsUnchanged ==
  [][ret'.op = "update_progress"
       => \A r \in user_progress :
            (r.user_id # ret'.user_id \/ r.topic_id # ret'.topic_id)
              => r \in user_progress']_vars

\* the mean mastery of the user's progress in a subject, 0.0 without progress
SubjectMean(user_id, subject_name) ==
  LET rows == {p \in get_user_progress(user_id) : p.subject_name = subject_name}
  IN  IF rows = {} THEN ZeroMean ELSE Mean(rows)

\* C22: in every generated plan, with priority_order the exam's subjects sorted
\* ascending by mean mastery and N its length, the primary subject of day d
\* (1..6) is priority_order[d mod N] and the secondary subject is
\* priority_order[(d + 1) mod N] (indexes from 0); for N >= 2 the two differ.
C22_DaySubjectsRotate ==
  Generated =>
    LET priority_order == ret.result.strategy.priority_subjects
        N == Len(priority_order)
        subjects == get_subjects_for_exam(ret.result.exam_type)
        weekly_plan == ret.result.weekly_plan
    IN  /\ N = Len(subjects)
        /\ {priority_order[i] : i \in 1..N} = {subjects[i].name : i \in 1..N}
        /\ \A i \in 1..N : \A j \in (i + 1)..N :
             ~MeanLess(SubjectMean(ret.user_id, priority_order[j]),
                       SubjectMean(ret.user_id, priority_order[i]))
        /\ \A d \in 1..6 :
             /\ weekly_plan[d].focus = priority_order[(d % N) + 1]
             /\ \A k \in 1..Len(weekly_plan[d].activities) :
                  LET activity == weekly_plan[d].activities[k]
                  IN  /\ activity.type = "concept_study"
                         => activity.subject = priority_order[(d % N) + 1]
                      /\ activity.type = "practice"
                         => activity.subject = priority_order[((d + 1) % N) + 1]
             /\ N >= 2 => priority_order[(d % N) + 1] # priority_order[((d + 1) % N) + 1]

\* a plan for three subjects whose weakest is not the first of the subjects list,
\* with a day that has its primary and its secondary activity
C22_Witness ==
  /\ Generated
  /\ Len(ret.result.strategy.priority_subjects) = 3
  /\ ret.result.strategy.priority_subjects[1]
       # get_subjects_for_exam(ret.result.exam_type)[1].name
  /\ MeanLess(SubjectMean(ret.user_id, ret.result.strategy.priority_subjects[1]),
              SubjectMean(ret.user_id, ret.result.strategy.priority_subjects[3]))
  /\ \E d \in 1..6 : Len(ret.result.weekly_plan[d].activities) = 3

\* the phase filter as the specification words it, mastery in hundredths
PassesPhaseFilter(phase, mastery_level) ==
  \/ phase = "foundation" /\ mastery_level < 40
  \/ phase = "intermediate" /\ 30 <= mastery_level /\ mastery_level < 70
  \/ phase = "advanced" /\ mastery_level >= 60

\* the topics of a subject that pass the filter for the user in the generated
\* roadmap's phase
Filtered(subject) ==
  With(get_user_progress(ret.user_id), LAMBDA progress :
    {t \in TopicsOrNone(AllTopics(ret.result.exam_type), subject) :
       PassesPhaseFilter(ret.result.strategy.phase, MasteryOf(progress, t.id))})

\* the topics a day's slot for the subject is chosen from
Candidates(subject) ==
  With(Filtered(subject), LAMBDA filtered :
    IF filtered # {} THEN filtered
    ELSE TopicsOrNone(AllTopics(ret.result.exam_type), subject))

\* topic_id is one of the candidates, and no candidate outranks it by
\* (importance descending, then difficulty descending)
RankedHighest(topic_id, candidates) ==
  \E t \in candidates :
    /\ t.id = topic_id
    /\ \A u \in candidates :
         ~(\/ u.importance > t.importance
           \/ u.importance = t.importance /\ u.difficulty_level > t.difficulty_level)

\* day d has an activity of the type for the subject, with a highest-ranked topic
SlotFilled(d, type, subject, candidates) ==
  \E k \in 1..Len(ret.result.weekly_plan[d].activities) :
    LET activity == ret.result.weekly_plan[d].activities[k]
    IN  /\ activity.type = type
        /\ activity.subject = subject
        /\ activity.topic_id # NoTopic
        /\ RankedHighest(activity.topic_id, candidates)

\* C23: for every subject that has at least one topic, the activity built for it
\* (primary or secondary, on every day 1..6) has a topic attached, and that topic
\* is ranked highest by (importance descending, difficulty descending) among
\* the subject's topics that pass the phase filter, or among all of the
\* subject's topics when the filter passes none.
C23_SlotHasHighestRankedTopic ==
  Generated =>
    LET priority_order == ret.result.strategy.priority_subjects
        N == Len(priority_order)
    IN  \A i \in 1..N :
          With(Candidates(priority_order[i]), LAMBDA candidates :
            candidates # {} =>
              \A d \in 1..6 :
                /\ (d % N) + 1 = i
                     => SlotFilled(d, "concept_study", priority_order[i], candidates)
                /\ ((d + 1) % N) + 1 = i
                     => SlotFilled(d, "practice", priority_order[i], candidates))

\* a plan with a subject whose topics all fail the filter and a subject of which
\* some topics pass and some fail
C23_Witness ==
  /\ Generated
  /\ \E i \in 1..Len(ret.result.strategy.priority_subjects) :
       LET subject == ret.result.strategy.priority_subjects[i]
       IN  /\ Filtered(subject) = {}
           /\ Candidates(subject) # {}
  /\ \E i \in 1..Len(ret.result.strategy.priority_subjects) :
       LET subject == ret.result.strategy.priority_subjects[i]
       IN  /\ Filtered(subject) # {}
           /\ Filtered(subject) # TopicsOrNone(AllTopics(ret.result.exam_type), subject)
  /\ \E d \in 1..6 : Len(ret.result.weekly_plan[d].activities) = 3

\* a duration in hours is less than one hour away from tenths/10 of the daily hours
WithinOneHour(duration, tenths, study_hours_per_day) ==
  /\ 10 * duration - tenths * study_hours_per_day < 10
  /\ tenths * study_hours_per_day - 10 * duration < 10

\* C24: on every regular day (1..6) and for every whole study_hours_per_day, the
\* primary activity's duration is 70% of the daily hours, the secondary's 20%
\* and the mixed revision's the remaining 10%, each less than one hour away
\* from its exact share.
C24_DaySplit702010 ==
  Generated =>
    \A d \in 1..6 : \A k \in 1..Len(ret.result.weekly_plan[d].activities) :
      LET activity == ret.result.weekly_plan[d].activities[k]
          hours == ret.result.study_hours_per_day
      IN  /\ activity.type = "concept_study" => WithinOneHour(activity.duration, 7, hours)
          /\ activity.type = "practice" => WithinOneHour(activity.duration, 2, hours)
          /\ activity.type = "revision" => WithinOneHour(activity.duration, 1, hours)

\* C25: get_roadmap_analytics(user, weeks_back) counts only the weeks that lie
\* within the last weeks_back weeks before now: no week of weekly_stats is a
\* future week, an earlier week, or the same week number of another year.
C25_OnlyWindowWeeksCounted ==
  ret.op = "get_roadmap_analytics" =>
    \A key \in DOMAIN ret.result.weekly_stats :
      (key[1] - 2025) * 52 + key[2] - 1 \in (week - ret.weeks_back)..week

\* C26: every item in the result of get_roadmap(user, week_offset) is the row of
\* an item that belongs to the roadmap whose id the result carries, also after
\* generate_weekly_roadmap has been called more than once for the user and week.
C26_ItemsBelongToReturnedRoadmap ==
  (ret.op = "get_roadmap" /\ ~ret.generated /\ "items" \in DOMAIN ret.result)
    => \A x \in ret.result.items :
         \E r \in roadmaps, ri \in roadmap_items :
           /\ r.id = ret.result.id
           /\ ri.roadmap_id = r.id
           /\ x = JoinedItem(r, ri)

\* the user's weeks with roadmap items that lie within the last weeks_back weeks
WeeksWithin(user_id, weeks_back) ==
  {<<r.year, r.week_number>> :
     r \in {x \in roadmaps :
              /\ x.user_id = user_id
              /\ (x.year - 2025) * 52 + x.week_number - 1 \in (week - weeks_back)..week
              /\ \E ri \in roadmap_items : ri.roadmap_id = x.id}}

\* C28: for a user with no roadmap items in the analytics window,
\* get_roadmap_analytics returns avg_completion_rate 0 and total_weeks_tracked 0,
\* and adapt_roadmap_based_on_performance, whose window is 2 weeks, emits a
\* reduce_workload directive.
C28_EmptyWindowReducesWorkload ==
  /\ (ret.op = "get_roadmap_analytics" /\ WeeksWithin(ret.user_id, ret.weeks_back) = {})
       => /\ ret.result.avg_completion_rate.num = 0
          /\ ret.result.total_weeks_tracked = 0
          /\ DOMAIN ret.result.weekly_stats = {}
  /\ (ret.op = "adapt_roadmap" /\ WeeksWithin(ret.user_id, 2) = {})
       => "reduce_workload" \in Directives

\* select_topics_for_day over a given progress state
SelectFrom(progress, subject_topics, phase) ==
  IF subject_topics = {} THEN <<>>
  ELSE With({t \in subject_topics : Suitable(phase, MasteryOf(progress, t.id))},
            LAMBDA suitable_topics :
              IF suitable_topics = {} THEN TopThree(subject_topics)
              ELSE TopThree(suitable_topics))

\* the plan of regular day d computed from the one progress state alone
DayPlanFrom(progress, d, user_profile) ==
  LET strategy == create_roadmap_strategy(user_profile, progress,
                                          get_subjects_for_exam(user_profile.exam_type))
      all_topics == AllTopics(user_profile.exam_type)
      n == Len(strategy.priority_subjects)
      primary_subject == strategy.priority_subjects[(d % n) + 1]
      secondary_subject == strategy.priority_subjects[((d + 1) % n) + 1]
  IN  [day |-> d, focus |-> primary_subject,
       activities |->
         DayActivities(primary_subject,
                       SelectFrom(progress, TopicsOrNone(all_topics, primary_subject),
                                  strategy.phase),
                       secondary_subject,
                       SelectFrom(progress, TopicsOrNone(all_topics, secondary_subject),
                                  strategy.phase),
                       user_profile.study_hours_per_day)]

\* C27: every roadmap generate_weekly_roadmap produces is computed from one
\* progress snapshot: also when update_progress calls for the user interleave
\* with the generation, there is a progress state the store was in during the
\* call from which alone the plan's phase, its allocation and every regular
\* day's subjects and topics follow.
C27_PlanFromOneSnapshot ==
  (Generated /\ "seen" \in DOMAIN ret) =>
    \E progress \in ret.seen :
      LET user_profile == get_user_profile(ret.user_id)
          strategy == create_roadmap_strategy(user_profile, progress,
                                              get_subjects_for_exam(user_profile.exam_type))
      IN  /\ ret.result.strategy.phase = strategy.phase
          /\ ret.result.strategy.subject_allocation = strategy.subject_allocation
          /\ \A d \in 1..6 :
               ret.result.weekly_plan[d] = DayPlanFrom(progress, d, user_profile)

\* C29: start_mock_test generates a test's questions only if they are not
\* already generated: a start_mock_test call on a test that has its response
\* rows leaves the response rows as they are, so that after any number of calls
\* the test has the rows of the first call, one per question.
C29_StartGeneratesOnce ==
  [][(/\ ret'.op = "start_mock_test"
      /\ ResponsesOf(ret'.mock_test_id) # {})
       => UNCHANGED mock_test_responses]_vars

\* C30: within one generated roadmap every activity of a subject, as primary
\* on any day and as secondary on any day, references the same topic, and the
\* roadmap's items reference at most as many topics as the exam has subjects.
C30_OneTopicPerSubject ==
  Generated =>
    /\ \A x \in TopicActivities, y \in TopicActivities :
         LET a == ret.result.weekly_plan[x[1]].activities[x[2]]
             b == ret.result.weekly_plan[y[1]].activities[y[2]]
         IN  a.subject = b.subject => a.topic_id = b.topic_id
    /\ Cardinality({ri.topic_id : ri \in GeneratedItems})
         <= Len(ret.result.strategy.priority_subjects)

\* a roadmap in which a subject is primary on one day and secondary on another,
\* and whose items reference one topic for each of three subjects
C30_Witness ==
  /\ Generated
  /\ \E x \in TopicActivities, y \in TopicActivities :
       LET a == ret.result.weekly_plan[x[1]].activities[x[2]]
           b == ret.result.weekly_plan[y[1]].activities[y[2]]
       IN  a.subject = b.subject /\ a.type = "concept_study" /\ b.type = "practice"
  /\ Cardinality({ri.topic_id : ri \in GeneratedItems}) = 3

====
